---- MODULE Spec2Model ----
(***************************************************************************)
(* A model of the achew chapter-extraction backend: the chapter            *)
(* operations (models/chapter_operation.py), the chapter routes            *)
(* (api/routes/chapters.py), the pipeline routes (api/routes/pipeline.py)  *)
(* and the processing pipeline (services/processing_pipeline.py).          *)
(*                                                                         *)
(* Time is counted in ticks of 1/8 second, so that the 0.25 s tolerance of *)
(* the add-chapter route is two ticks and a request can fall strictly      *)
(* inside it.  Chapter ids are opaque values compared by equality.         *)
(***************************************************************************)
EXTENDS Integers, Sequences, FiniteSets, TLC

\* ------------------------------------------------------------------ bounds
\* book.duration, in ticks
Duration == 6
\* the longest history the model lets the stack grow to
MaxHist == 2
\* the most chapters the model lets the list hold
MaxChapters == 3
\* the most chapter requests the store specification serves
MaxRequests == 3
\* the most VAD worker subprocesses the service starts (max_processes)
MaxWorkers == 2

\* 0.25 s in ticks (chapters.py: the restore tolerance and the add window)
Quarter == 2
\* one second in ticks
TicksPerSecond == 4 * Quarter

\* ----------------------------------------------------------- chapter data
NoId == -1
Null == "<null>"

\* titles a request, a transcription or the language model can carry
Titles == {"", "a", "b"}

\* models/chapter.py ChapterData: sel is the private _selected flag
ChapterData(id, timestamp, title) ==
    [id |-> id, timestamp |-> timestamp, asr_title |-> title,
     current_title |-> title, sel |-> TRUE, deleted |-> FALSE]

NoChapter ==
    [id |-> NoId, timestamp |-> 0, asr_title |-> "", current_title |-> "",
     sel |-> FALSE, deleted |-> FALSE]

\* ChapterData.selected (computed field): _selected and not deleted
selected(c) == c.sel /\ ~c.deleted

\* the selection written without the deleted flag
selected_chapters_by_flag(chs) == SelectSeq(chs, LAMBDA ch : ch.sel)

\* [ch for ch in chapters if ch.selected]
selected_chapters(chs) == SelectSeq(chs, selected)

\* the (timestamp, title) pairs submit_chapters hands to Audiobookshelf
chapter_data(chs) ==
    LET picked == selected_chapters(chs)
    IN  [k \in 1..Len(picked) |-> <<picked[k].timestamp, picked[k].current_title>>]

\* ABSService.upload_chapters: the payload built from the pairs, ids counted
\* as enumerate counts them
formatted_chapters(pairs, duration) ==
    [k \in 1..Len(pairs) |->
        [id |-> k - 1,
         start |-> IF k = 1 THEN 0 ELSE pairs[k][1],
         end |-> IF k = Len(pairs) THEN duration ELSE pairs[k + 1][1],
         title |-> pairs[k][2]]]

\* what a caller can observe of a chapter list: identity, order, title,
\* selection flag and deleted flag of every chapter
Observable(chs) ==
    [i \in 1..Len(chs) |->
        [id |-> chs[i].id, timestamp |-> chs[i].timestamp,
         current_title |-> chs[i].current_title,
         selected |-> selected(chs[i]), deleted |-> chs[i].deleted]]

\* ------------------------------------------------------ chapter operations
\* One record shape for every operation and history entry.
Operation(type, chapter_id, old_title, new_title, sel, chapter, operations) ==
    [type |-> type, chapter_id |-> chapter_id, old_title |-> old_title,
     new_title |-> new_title, selected |-> sel, chapter |-> chapter,
     operations |-> operations, title_changes |-> <<>>,
     selection_changes |-> <<>>]

AddChapterOperation(chapter) ==
    Operation("add", chapter.id, "", "", TRUE, chapter, <<>>)
DeleteChapterOperation(chapter_id) ==
    Operation("delete", chapter_id, "", "", TRUE, NoChapter, <<>>)
RestoreChapterOperation(chapter_id, new_title) ==
    Operation("restore", chapter_id, "", new_title, TRUE, NoChapter, <<>>)
EditTitleOperation(chapter_id, new_title) ==
    Operation("edit_title", chapter_id, "", new_title, TRUE, NoChapter, <<>>)
AICleanupOperation(chapter_id, old_title, new_title, sel) ==
    Operation("ai_cleanup", chapter_id, old_title, new_title, sel, NoChapter, <<>>)
BatchChapterOperation(operations) ==
    Operation("batch", NoId, "", "", TRUE, NoChapter, operations)

\* ChapterOperation.find_chapter: the position of the first chapter with
\* this id, 0 when there is none (the code raises ValueError)
find_chapter(chs, chapter_id) ==
    IF \E i \in 1..Len(chs) : chs[i].id = chapter_id
    THEN CHOOSE i \in 1..Len(chs) :
            /\ chs[i].id = chapter_id
            /\ \A j \in 1..(i - 1) : chs[j].id # chapter_id
    ELSE 0

\* list.insert(k, c) with k counted from 0
ListInsert(chs, k, c) ==
    SubSeq(chs, 1, k) \o <<c>> \o SubSeq(chs, k + 1, Len(chs))

\* list.remove(c): drops the first element equal to c
ListRemove(chs, c) ==
    LET i == CHOOSE i \in 1..Len(chs) :
                /\ chs[i] = c
                /\ \A j \in 1..(i - 1) : chs[j] # c
    IN  SubSeq(chs, 1, i - 1) \o SubSeq(chs, i + 1, Len(chs))

\* AddChapterOperation.apply: the insert index is the position of the first
\* chapter with a greater timestamp, the end of the list when there is none
AddInsertIndex(chs, c) ==
    IF \E i \in 1..Len(chs) : chs[i].timestamp > c.timestamp
    THEN (CHOOSE i \in 1..Len(chs) :
            /\ chs[i].timestamp > c.timestamp
            /\ \A j \in 1..(i - 1) : ~(chs[j].timestamp > c.timestamp)) - 1
    ELSE Len(chs)

AddApply(op, chs) == ListInsert(chs, AddInsertIndex(chs, op.chapter), op.chapter)

AddUndo(op, chs) == ListRemove(chs, chs[find_chapter(chs, op.chapter.id)])

DeleteApply(op, chs) ==
    [chs EXCEPT ![find_chapter(chs, op.chapter_id)].deleted = TRUE]

DeleteUndo(op, chs) ==
    [chs EXCEPT ![find_chapter(chs, op.chapter_id)].deleted = FALSE]

\* RestoreChapterOperation.apply; a new_title of None or "" is falsy
RestoreApply(op, chs) ==
    LET i == find_chapter(chs, op.chapter_id)
        c == [chs[i] EXCEPT !.sel = TRUE, !.deleted = FALSE]
    IN  [chs EXCEPT ![i] =
            IF op.new_title # "" THEN [c EXCEPT !.current_title = op.new_title]
            ELSE c]

\* the old title captured by apply (self.old_title = chapter.current_title)
RestoreCapture(op, chs) ==
    IF op.new_title # ""
    THEN [op EXCEPT !.old_title = chs[find_chapter(chs, op.chapter_id)].current_title]
    ELSE op

RestoreUndo(op, chs) ==
    LET i == find_chapter(chs, op.chapter_id)
        c == IF op.new_title # ""
             THEN [chs[i] EXCEPT !.current_title = op.old_title]
             ELSE chs[i]
    IN  [chs EXCEPT ![i] = [c EXCEPT !.deleted = TRUE]]

EditTitleApply(op, chs) ==
    [chs EXCEPT ![find_chapter(chs, op.chapter_id)].current_title = op.new_title]

EditTitleCapture(op, chs) ==
    [op EXCEPT !.old_title = chs[find_chapter(chs, op.chapter_id)].current_title]

EditTitleUndo(op, chs) ==
    [chs EXCEPT ![find_chapter(chs, op.chapter_id)].current_title = op.old_title]

AICleanupApply(op, chs) ==
    LET i == find_chapter(chs, op.chapter_id)
    IN  [chs EXCEPT ![i] = [chs[i] EXCEPT !.current_title = op.new_title,
                                          !.sel = op.selected]]

AICleanupUndo(op, chs) ==
    LET i == find_chapter(chs, op.chapter_id)
    IN  [chs EXCEPT ![i] = [chs[i] EXCEPT !.current_title = op.old_title,
                                          !.sel = TRUE]]

\* apply of one non-batch operation: the chapter list it leaves
ApplyOne(op, chs) ==
    CASE op.type = "add"        -> AddApply(op, chs)
      [] op.type = "delete"     -> DeleteApply(op, chs)
      [] op.type = "restore"    -> RestoreApply(op, chs)
      [] op.type = "edit_title" -> EditTitleApply(op, chs)
      [] op.type = "ai_cleanup" -> AICleanupApply(op, chs)
      [] OTHER                  -> chs

\* apply of one non-batch operation: the operation object it leaves
CaptureOne(op, chs) ==
    CASE op.type = "restore"    -> RestoreCapture(op, chs)
      [] op.type = "edit_title" -> EditTitleCapture(op, chs)
      [] OTHER                  -> op

UndoOne(op, chs) ==
    CASE op.type = "add"        -> AddUndo(op, chs)
      [] op.type = "delete"     -> DeleteUndo(op, chs)
      [] op.type = "restore"    -> RestoreUndo(op, chs)
      [] op.type = "edit_title" -> EditTitleUndo(op, chs)
      [] op.type = "ai_cleanup" -> AICleanupUndo(op, chs)
      [] OTHER                  -> chs

\* BatchChapterOperation.apply: for op in operations: op.apply(pipeline)
RECURSIVE BatchApply(_, _)
BatchApply(ops, chs) ==
    IF ops = <<>> THEN chs
    ELSE BatchApply(Tail(ops), ApplyOne(Head(ops), chs))

\* the member operations as the batch's apply leaves them
RECURSIVE BatchCapture(_, _)
BatchCapture(ops, chs) ==
    IF ops = <<>> THEN <<>>
    ELSE <<CaptureOne(Head(ops), chs)>>
            \o BatchCapture(Tail(ops), ApplyOne(Head(ops), chs))

\* BatchChapterOperation.undo: for op in reversed(operations): op.undo(pipeline)
RECURSIVE BatchUndo(_, _)
BatchUndo(ops, chs) ==
    IF ops = <<>> THEN chs
    ELSE BatchUndo(SubSeq(ops, 1, Len(ops) - 1), UndoOne(ops[Len(ops)], chs))

\* op.apply(pipeline): the chapter list afterwards
Apply(op, chs) ==
    IF op.type = "batch" THEN BatchApply(op.operations, chs)
    ELSE ApplyOne(op, chs)

\* op.apply(pipeline): the operation object afterwards
Capture(op, chs) ==
    IF op.type = "batch"
    THEN [op EXCEPT !.operations = BatchCapture(op.operations, chs)]
    ELSE CaptureOne(op, chs)

\* op.undo(pipeline): the chapter list afterwards
Undo(op, chs) ==
    IF op.type = "batch" THEN BatchUndo(op.operations, chs)
    ELSE UndoOne(op, chs)

\* ---------------------------------------------------------------- state
VARIABLES
    \* app_state.pipeline is not None
    pipeline,
    \* ProcessingPipeline fields
    step, chapters, history_stack, history_index, existing_cue_sources,
    cues, segment_files, trimmed_segment_files, transcriptions,
    transcribed_chapters, cue_sets, include_unaligned,
    \* the background task of the pipeline that is in flight, and the
    \* AI clean-up request that is waiting for its provider
    task, ai,
    \* the last request or task step and how it ended (history variable)
    last,
    \* the chapter lists around the last recorded edit (history variable)
    trail,
    \* what the observers have been sent: the step of the latest step_change,
    \* the latest progress_update since then, and the events of the last
    \* request or task step in the order they were handed over
    observed,
    \* the number of chapter requests the store specification has served
    requests,
    \* the operation round trip of the operation-level specification
    o_chapters, o_op, o_before, o_phase,
    \* ProcessingPipeline.smart_detect_config, and the last configuration
    \* request with its answer (history variable)
    smart_detect_config, c_result,
    \* the input a detection or alignment function is called with, and the
    \* call with its result (the function-level specifications)
    p_in, p_out

vars_pipeline ==
    <<pipeline, step, chapters, history_stack, history_index,
      existing_cue_sources, cues, segment_files, trimmed_segment_files,
      transcriptions, transcribed_chapters, cue_sets, include_unaligned,
      task, ai, last, trail, observed>>

vars_ops == <<o_chapters, o_op, o_before, o_phase>>

vars_config == <<smart_detect_config, c_result>>

vars_pure == <<p_in, p_out>>

vars == <<vars_pipeline, requests, vars_ops, vars_config, vars_pure>>

\* ---------------------------------------------------------------- steps
\* models/enums.py Step
Steps ==
    {"idle", "validating", "downloading", "file_prep", "select_cue_source",
     "audio_analysis", "vad_prep", "vad_analysis", "cue_set_selection",
     "audio_extraction", "configure_asr", "trimming", "asr_processing",
     "chapter_editing", "ai_cleanup", "reviewing", "completed"}

\* models/enums.py RestartStep and its ordinal
RestartSteps ==
    {"idle", "select_cue_source", "cue_set_selection", "configure_asr",
     "chapter_editing"}

ordinal(restart_step) ==
    CASE restart_step = "idle"              -> 0
      [] restart_step = "select_cue_source" -> 1
      [] restart_step = "cue_set_selection" -> 2
      [] restart_step = "configure_asr"     -> 3
      [] restart_step = "chapter_editing"   -> 4

\* ------------------------------------------------------ history variables
\* what a queued background task was asked to do
NoArg == [option |-> "", chapter_count |-> 0, include_unaligned |-> <<>>,
          clips |-> 0, queued |-> 0]
NoTask == [kind |-> "none", pc |-> "none", arg |-> NoArg]
NoAI == [active |-> FALSE, ids |-> <<>>, orphans |-> <<>>]
NoTrail == [phase |-> "none", pre_edit |-> <<>>, pre_undo |-> <<>>,
            pre_index |-> -1]

Last(op, status) ==
    [op |-> op, status |-> status, level |-> "", from |-> "",
     in_window |-> FALSE, dropped |-> 0, alive |-> 0, rows |-> <<>>,
     upload |-> <<>>, paths |-> 0, failed |-> {}]

EmptyDict == <<>>

\* no progress_update has been sent since the latest step_change
NoProgress == [type |-> "progress_update", step |-> "", percent |-> 0]

\* the observers' view with nothing sent by the last step
Quiet(announced, shown) ==
    [announced |-> announced, shown |-> shown, events |-> <<>>]

\* ------------------------------------------------------------------ Init
\* ProcessingPipeline.__init__; no pipeline exists when the server starts
InitPipeline ==
    /\ pipeline = FALSE
    /\ step = "idle"
    /\ chapters = <<>>
    /\ history_stack = <<>>
    /\ history_index = -1
    /\ existing_cue_sources = <<>>
    /\ cues = <<>>
    /\ segment_files = 0
    /\ trimmed_segment_files = 0
    /\ transcriptions = <<>>
    /\ transcribed_chapters = <<>>
    /\ cue_sets = EmptyDict
    /\ include_unaligned = <<>>
    /\ task = NoTask
    /\ ai = NoAI
    /\ last = Last("init", "ok")
    /\ trail = NoTrail
    /\ observed = Quiet("idle", NoProgress)
    /\ requests = 0

InitOpsIdle ==
    /\ o_chapters = <<>>
    /\ o_op = BatchChapterOperation(<<>>)
    /\ o_before = <<>>
    /\ o_phase = "idle"

\* SmartDetectConfig.__init__ defaults, in ticks: 8 s, 1 s, 0.25 s, 2 s
DefaultSmartDetectConfig ==
    [segment_length |-> 8 * TicksPerSecond, min_clip_length |-> TicksPerSecond,
     asr_buffer |-> Quarter, min_silence_duration |-> 2 * TicksPerSecond]

NoConfigResult ==
    [op |-> "none", status |-> "", request |-> DefaultSmartDetectConfig,
     errors |-> <<>>, before |-> DefaultSmartDetectConfig, step |-> ""]

InitConfigIdle ==
    /\ smart_detect_config = DefaultSmartDetectConfig
    /\ c_result = NoConfigResult

\* no detection or alignment function is under study
NoCall == [op |-> "none"]

InitPureIdle ==
    /\ p_in = NoCall
    /\ p_out = NoCall

Init == InitPipeline /\ InitOpsIdle /\ InitConfigIdle /\ InitPureIdle

\* ------------------------------------------------------------- the history
\* can_undo with the comparison one off: undo is allowed at index -1
can_undo_at_floor == history_index >= -1

\* ProcessingPipeline.can_undo
can_undo == history_index >= 0

\* ProcessingPipeline.can_redo
can_redo == history_index < Len(history_stack) - 1

\* add_to_history without the truncation of the entries after the index
add_to_history_keeping_tail(stack, index, entry) == Append(stack, entry)

\* ProcessingPipeline.add_to_history: the stack after the entry is appended
\* (the entries after history_index are dropped first)
add_to_history(stack, index, entry) ==
    Append(IF index < Len(stack) - 1 THEN SubSeq(stack, 1, index + 1) ELSE stack,
           entry)

\* how many entries add_to_history drops
Dropped(stack, index) ==
    IF index < Len(stack) - 1 THEN Len(stack) - 1 - index ELSE 0

\* the history has room for one more entry within the model's bound
HistoryRoom == history_index + 2 <= MaxHist

\* a chapter route applies op and records it: op.apply(pipeline);
\* pipeline.add_to_history(op)
ApplyAndRecord(op, name) ==
    /\ chapters' = Apply(op, chapters)
    /\ history_stack' =
          add_to_history(history_stack, history_index, Capture(op, chapters))
    /\ history_index' = Len(history_stack') - 1
    /\ last' = [Last(name, "ok") EXCEPT
                  !.dropped = Dropped(history_stack, history_index)]
    /\ trail' = [phase |-> "edited", pre_edit |-> chapters, pre_undo |-> <<>>,
                 pre_index |-> history_index]

\* a request that is refused, or fails, without changing the pipeline
Refuse(name, status) ==
    /\ last' = Last(name, status)
    /\ trail' = NoTrail
    /\ UNCHANGED <<pipeline, step, chapters, history_stack, history_index,
                   existing_cue_sources, cues, segment_files,
                   trimmed_segment_files, transcriptions, transcribed_chapters,
                   cue_sets, include_unaligned, task, ai>>

ChapterIds == {chapters[i].id : i \in 1..Len(chapters)}

\* the variables the chapter routes never write
UNCHANGED_derived ==
    UNCHANGED <<pipeline, step, existing_cue_sources, cues, segment_files,
                trimmed_segment_files, transcriptions, transcribed_chapters,
                cue_sets, include_unaligned, task, ai>>

\* ------------------------------------------------------- the chapter routes
\* ids a request can name: every id in the list and one that is in no list
RequestIds == ChapterIds \cup {NoId}

\* the id of a newly constructed ChapterData (a fresh uuid): an id that no
\* chapter of the list has
FreshId ==
    CHOOSE n \in 10..(10 + MaxChapters + 1) :
        /\ n \notin ChapterIds
        /\ \A m \in 10..(n - 1) : m \in ChapterIds

\* PUT /chapters/{chapter_id}/title
update_chapter_title(chapter_id, title) ==
    /\ pipeline
    /\ IF find_chapter(chapters, chapter_id) = 0
       THEN Refuse("update_chapter_title", "error")
       ELSE /\ HistoryRoom
            /\ ApplyAndRecord(EditTitleOperation(chapter_id, title),
                              "update_chapter_title")
            /\ UNCHANGED_derived

\* the chapter.selected setter on the chapter at position i
SetSelected(chs, i, value) == [chs EXCEPT ![i].sel = value]

\* PUT /chapters/{chapter_id}/select
toggle_chapter_selection(chapter_id, value) ==
    /\ pipeline
    /\ IF find_chapter(chapters, chapter_id) = 0
       THEN Refuse("toggle_chapter_selection", "not_found")
       ELSE /\ chapters' =
                  SetSelected(chapters, find_chapter(chapters, chapter_id), value)
            /\ last' = Last("toggle_chapter_selection", "ok")
            /\ trail' = NoTrail
            /\ UNCHANGED <<history_stack, history_index>>
            /\ UNCHANGED_derived

\* DELETE /chapters/{chapter_id}
delete_chapter(chapter_id) ==
    /\ pipeline
    /\ IF find_chapter(chapters, chapter_id) = 0
       THEN Refuse("delete_chapter", "error")
       ELSE /\ HistoryRoom
            /\ ApplyAndRecord(DeleteChapterOperation(chapter_id), "delete_chapter")
            /\ UNCHANGED_derived

\* POST /chapters/select-all
select_all ==
    /\ pipeline
    /\ chapters' =
          [i \in 1..Len(chapters) |->
              IF ~selected(chapters[i]) THEN [chapters[i] EXCEPT !.sel = TRUE]
              ELSE chapters[i]]
    /\ last' = Last("select_all", "ok")
    /\ trail' = NoTrail
    /\ UNCHANGED <<history_stack, history_index>>
    /\ UNCHANGED_derived

\* POST /chapters/deselect-all
deselect_all ==
    /\ pipeline
    /\ chapters' =
          [i \in 1..Len(chapters) |->
              IF selected(chapters[i]) THEN [chapters[i] EXCEPT !.sel = FALSE]
              ELSE chapters[i]]
    /\ last' = Last("deselect_all", "ok")
    /\ trail' = NoTrail
    /\ UNCHANGED <<history_stack, history_index>>
    /\ UNCHANGED_derived

\* ProcessingPipeline.undo: moves the index back and returns a description
\* of the entry; the chapter list is not written
undo == history_index - 1

\* ProcessingPipeline.redo: moves the index forward; the chapter list is not
\* written
redo == history_index + 1

\* POST /chapters/undo
undo_action ==
    /\ pipeline
    /\ IF ~can_undo
       THEN Refuse("undo", "rejected")
       ELSE /\ history_index' = undo
            /\ last' = Last("undo", "ok")
            /\ trail' = IF trail.phase = "edited"
                        THEN [trail EXCEPT !.phase = "undone",
                                           !.pre_undo = chapters]
                        ELSE NoTrail
            /\ UNCHANGED <<chapters, history_stack>>
            /\ UNCHANGED_derived

\* POST /chapters/redo
redo_action ==
    /\ pipeline
    /\ IF ~can_redo
       THEN Refuse("redo", "rejected")
       ELSE /\ history_index' = redo
            /\ last' = Last("redo", "ok")
            /\ trail' = IF trail.phase = "undone"
                        THEN [trail EXCEPT !.phase = "redone"]
                        ELSE NoTrail
            /\ UNCHANGED <<chapters, history_stack>>
            /\ UNCHANGED_derived

Min(S) == CHOOSE x \in S : \A y \in S : x <= y

\* GET /chapters/add-options/{chapter_id}: min_timestamp and max_timestamp of
\* the response.  The next chapter is the one that follows the anchor when
\* the non-deleted chapters are sorted by timestamp (a stable sort).
get_add_options(chs, chapter_id) ==
    LET live == SelectSeq(chs, LAMBDA c : ~c.deleted)
        i == find_chapter(live, chapter_id)
        later == {live[j].timestamp : j \in
                    {k \in 1..Len(live) :
                        \/ live[k].timestamp > live[i].timestamp
                        \/ k > i /\ live[k].timestamp = live[i].timestamp}}
    IN  IF i = 0 THEN [found |-> FALSE, min_timestamp |-> 0, max_timestamp |-> 0]
        ELSE [found |-> TRUE,
              min_timestamp |-> live[i].timestamp + Quarter,
              max_timestamp |-> (IF later = {} THEN Duration ELSE Min(later))
                                - Quarter]

\* the timestamp is inside the window add-options reports for some anchor
InAddWindow(chs, timestamp) ==
    \E i \in 1..Len(chs) :
        LET w == get_add_options(chs, chs[i].id)
        IN  /\ w.found
            /\ w.min_timestamp <= timestamp
            /\ timestamp <= w.max_timestamp

Abs(x) == IF x < 0 THEN -x ELSE x

\* add_chapter: the first deleted chapter within 0.25 s of the request
existing_deleted(chs, timestamp) ==
    IF \E i \in 1..Len(chs) :
          chs[i].deleted /\ Abs(chs[i].timestamp - timestamp) < Quarter
    THEN CHOOSE i \in 1..Len(chs) :
            /\ chs[i].deleted /\ Abs(chs[i].timestamp - timestamp) < Quarter
            /\ \A j \in 1..(i - 1) :
                  ~(chs[j].deleted /\ Abs(chs[j].timestamp - timestamp) < Quarter)
    ELSE 0

\* timestamps an add request can carry: the request model puts no bound on
\* the number
AddTimestamps == (0 - 1)..(Duration + 1)

\* POST /chapters
add_chapter(timestamp, title) ==
    /\ pipeline
    /\ HistoryRoom
    /\ LET d == existing_deleted(chapters, timestamp)
           operation ==
              IF d # 0
              THEN RestoreChapterOperation(chapters[d].id, title)
              ELSE AddChapterOperation(
                      [ChapterData(FreshId, timestamp, title)
                          EXCEPT !.asr_title = ""])
       IN  /\ d = 0 => Len(chapters) < MaxChapters
           /\ chapters' = Apply(operation, chapters)
           /\ history_stack' =
                 add_to_history(history_stack, history_index,
                                Capture(operation, chapters))
           /\ history_index' = Len(history_stack') - 1
           /\ last' = [Last("add_chapter", "ok") EXCEPT
                         !.in_window = InAddWindow(chapters, timestamp),
                         !.dropped = Dropped(history_stack, history_index)]
           /\ trail' = [phase |-> "edited", pre_edit |-> chapters,
                        pre_undo |-> <<>>, pre_index |-> history_index]
    /\ UNCHANGED_derived

\* ----------------------------------------------------------- AI clean-up
\* what the language model can return for one title
AIOutputs == {"b", Null}

\* process_selected_with_ai: is_valid_title (not None, not blank after
\* strip(), not the word null in any case), over the titles of the model
is_valid_title(processed_title) ==
    processed_title \notin {Null, "", " ", "null"}

\* process_selected_with_ai, the body of the loop for one selected chapter c
\* and its processed title: the chapter it leaves and the changes it tracks
ProcessOne(c, processed_title) ==
    IF is_valid_title(processed_title)
    THEN [chapter |-> [c EXCEPT !.current_title = processed_title],
          title_changes |-> <<[chapter_id |-> c.id,
                               old_title |-> c.current_title,
                               new_title |-> processed_title]>>,
          selection_changes |-> <<>>]
    ELSE [chapter |-> [c EXCEPT
                          !.current_title =
                              IF c.current_title \notin {"", " "} THEN ""
                              ELSE c.current_title,
                          !.sel = IF selected(c) THEN FALSE ELSE c.sel],
          title_changes |->
              IF c.current_title \notin {"", " "}
              THEN <<[chapter_id |-> c.id, old_title |-> c.current_title,
                      new_title |-> ""]>>
              ELSE <<>>,
          selection_changes |->
              IF selected(c) THEN <<[chapter_id |-> c.id]>> ELSE <<>>]

\* process_selected_with_ai, the loop over selected_chapters
RECURSIVE ProcessAll(_, _)
ProcessAll(objs, processed_titles) ==
    IF objs = <<>> \/ processed_titles = <<>>
    THEN [chapters |-> objs, title_changes |-> <<>>, selection_changes |-> <<>>]
    ELSE LET one == ProcessOne(Head(objs), Head(processed_titles))
             rest == ProcessAll(Tail(objs), Tail(processed_titles))
         IN  [chapters |-> <<one.chapter>> \o rest.chapters,
              title_changes |-> one.title_changes \o rest.title_changes,
              selection_changes |->
                  one.selection_changes \o rest.selection_changes]

\* the history entry of an AI clean-up (ActionType.AI_CLEANUP)
AICleanupEntry(title_changes, selection_changes) ==
    [BatchChapterOperation(<<>>) EXCEPT
        !.type = "ai_cleanup_batch",
        !.title_changes = title_changes,
        !.selection_changes = selection_changes]

\* selected_chapters of the request in flight, as the objects are now
Captured ==
    IF ai.orphans # <<>> THEN ai.orphans
    ELSE [k \in 1..Len(ai.ids) |-> chapters[find_chapter(chapters, ai.ids[k])]]

\* the chapter list after the loop has written to the captured objects
WriteBack(chs, ids, objs) ==
    [i \in 1..Len(chs) |->
        IF \E k \in 1..Len(ids) : ids[k] = chs[i].id
        THEN objs[CHOOSE k \in 1..Len(ids) : ids[k] = chs[i].id]
        ELSE chs[i]]

SelectedIds ==
    LET sel == SelectSeq(chapters, selected)
    IN  [k \in 1..Len(sel) |-> sel[k].id]

\* POST /chapters/ai-cleanup up to the call of the provider;
\* created = FALSE is create_provider returning None (ValueError)
ai_cleanup(created) ==
    /\ pipeline
    /\ ~ai.active
    /\ IF SelectedIds = <<>>
       THEN Refuse("ai_cleanup", "noop")
       ELSE /\ step' = "ai_cleanup"
            /\ ai' = IF created
                     THEN [active |-> TRUE, ids |-> SelectedIds,
                           orphans |-> <<>>]
                     ELSE ai
            /\ last' = Last("ai_cleanup", IF created THEN "started" ELSE "failed")
            /\ trail' = NoTrail
            /\ UNCHANGED <<pipeline, chapters, history_stack, history_index,
                           existing_cue_sources, cues, segment_files,
                           trimmed_segment_files, transcriptions,
                           transcribed_chapters, cue_sets, include_unaligned,
                           task>>

\* the answers the provider can give for n titles
RECURSIVE ProcessedTitles(_)
ProcessedTitles(n) ==
    IF n = 0 THEN {<<>>}
    ELSE {<<t>> \o rest : t \in AIOutputs, rest \in ProcessedTitles(n - 1)}

\* process_selected_with_ai after the provider has answered
ai_cleanup_done(processed_titles) ==
    /\ ai.active
    /\ HistoryRoom
    /\ LET result == ProcessAll(Captured, processed_titles)
           changed == result.title_changes # <<>> \/ result.selection_changes # <<>>
       IN  /\ chapters' = IF ai.orphans # <<>> THEN chapters
                          ELSE WriteBack(chapters, ai.ids, result.chapters)
           /\ history_stack' =
                 IF changed
                 THEN add_to_history(history_stack, history_index,
                                     AICleanupEntry(result.title_changes,
                                                    result.selection_changes))
                 ELSE history_stack
           /\ history_index' =
                 IF changed THEN Len(history_stack') - 1 ELSE history_index
           /\ last' = [Last("ai_cleanup_done", "ok") EXCEPT
                         !.dropped = IF changed
                                     THEN Dropped(history_stack, history_index)
                                     ELSE 0]
           /\ trail' = IF changed
                       THEN [phase |-> "edited", pre_edit |-> chapters,
                             pre_undo |-> <<>>, pre_index |-> history_index]
                       ELSE NoTrail
    /\ step' = "chapter_editing"
    /\ ai' = NoAI
    /\ UNCHANGED <<pipeline, existing_cue_sources, cues, segment_files,
                   trimmed_segment_files, transcriptions, transcribed_chapters,
                   cue_sets, include_unaligned, task>>

\* a failing clean-up that records an empty clean-up in the history
ai_cleanup_failed_recording ==
    /\ ai.active
    /\ ai' = NoAI
    /\ history_stack' = add_to_history(history_stack, history_index,
                                       AICleanupEntry(<<>>, <<>>))
    /\ history_index' = Len(history_stack') - 1
    /\ last' = Last("ai_cleanup_done", "failed")
    /\ trail' = NoTrail
    /\ UNCHANGED <<pipeline, step, chapters, existing_cue_sources, cues,
                   segment_files, trimmed_segment_files, transcriptions,
                   transcribed_chapters, cue_sets, include_unaligned, task>>

\* process_selected_with_ai when the provider raises: the error is
\* broadcast and False is returned; self.step is not written
ai_cleanup_failed ==
    /\ ai.active
    /\ ai' = NoAI
    /\ last' = Last("ai_cleanup_done", "failed")
    /\ trail' = NoTrail
    /\ UNCHANGED <<pipeline, step, chapters, history_stack, history_index,
                   existing_cue_sources, cues, segment_files,
                   trimmed_segment_files, transcriptions, transcribed_chapters,
                   cue_sets, include_unaligned, task>>

\* ------------------------------------------------------- restart and cancel
\* the fields of the pipeline that restart_at_step reads or writes
PipelineState ==
    [step |-> step, chapters |-> chapters, history_stack |-> history_stack,
     history_index |-> history_index, cues |-> cues,
     segment_files |-> segment_files,
     trimmed_segment_files |-> trimmed_segment_files,
     transcriptions |-> transcriptions,
     transcribed_chapters |-> transcribed_chapters, cue_sets |-> cue_sets,
     include_unaligned |-> include_unaligned]

\* restart_at_step with each clean-up run for its own level only
restart_at_step_one_level(restart_step, s) ==
    CASE restart_step = "chapter_editing" ->
            [s EXCEPT !.step = "chapter_editing"]
      [] restart_step = "configure_asr" ->
            [s EXCEPT !.trimmed_segment_files = 0, !.transcriptions = <<>>,
                      !.transcribed_chapters = <<>>, !.chapters = <<>>,
                      !.history_stack = <<>>, !.history_index = -1,
                      !.step = "configure_asr"]
      [] restart_step = "cue_set_selection" ->
            [s EXCEPT !.segment_files = 0, !.cues = <<>>,
                      !.include_unaligned = <<>>, !.step = "cue_set_selection"]
      [] OTHER ->
            [s EXCEPT !.cue_sets = EmptyDict, !.step = "select_cue_source"]

\* ProcessingPipeline.restart_at_step for a level other than IDLE, after
\* cancel_processing has returned: the cascade of clean-ups
restart_at_step(restart_step, s) ==
    LET step_num == ordinal(restart_step)
        s1 == IF step_num <= ordinal("chapter_editing")
              THEN [s EXCEPT !.step = "chapter_editing"]
              ELSE s
        s2 == IF step_num <= ordinal("configure_asr")
              THEN [s1 EXCEPT !.trimmed_segment_files = 0,
                              !.transcriptions = <<>>,
                              !.transcribed_chapters = <<>>,
                              !.chapters = <<>>,
                              !.history_stack = <<>>,
                              !.history_index = -1,
                              !.step = "configure_asr"]
              ELSE s1
        s3 == IF step_num <= ordinal("cue_set_selection")
              THEN [s2 EXCEPT !.segment_files = 0,
                              !.cues = <<>>,
                              !.include_unaligned = <<>>,
                              !.step = "cue_set_selection"]
              ELSE s2
        s4 == IF step_num <= ordinal("select_cue_source")
              THEN [s3 EXCEPT !.cue_sets = EmptyDict,
                              !.step = "select_cue_source"]
              ELSE s3
    IN  s4

\* ProcessingPipeline.cancel_processing: what is left of the background
\* task.  The extraction task of an existing source, the download task and
\* the VAD task are cancelled and awaited; the trimming task is cancelled
\* and awaited and its caller handles the cancellation (CancelAndRestart);
\* the transcription task is cancelled and not awaited; a coroutine that no
\* task handle refers to keeps running.
cancel_processing(t) ==
    CASE t.kind = "create_cues" /\ t.pc = "extract" -> NoTask
      [] t.kind = "fetch" /\ t.pc = "downloading"   -> NoTask
      [] t.kind = "create_cues" /\ t.pc = "vad"     -> NoTask
      [] t.kind = "create_cues" /\ t.pc = "vad_workers" -> NoTask
      [] t.kind = "transcribe" /\ t.pc = "trimming" -> NoTask
      [] t.kind = "transcribe" /\ t.pc = "asr"      ->
            [t EXCEPT !.pc = "asr_cancelled"]
      [] OTHER                                      -> t

\* the VAD worker subprocesses that are alive while the task runs
\* (VadDetectionService._vad_processes)
vad_processes(t) ==
    IF t.kind = "create_cues" /\ t.pc = "vad_workers" THEN MaxWorkers ELSE 0

\* the VAD workers left alive when the VAD task is cancelled.  The
\* cancellation reaches the worker coroutines first: the finally clause of
\* _process_chunk_batch_subprocess removes each process from _vad_processes
\* without killing it, so cancel_vad_processes, which runs afterwards, finds
\* the list empty; a worker is gone only if it has ended by itself.
cancel_vad_processes(t) == 0..vad_processes(t)

\* what cancel_processing can leave: the task and the subprocesses alive.
\* The media-tool processes of _running_processes are terminated.
\* task.cancel() has no effect on a download or VAD task that had already
\* finished: the coroutine that awaits it then resumes with the result and
\* checks self.step.
cancel_outcomes(t) ==
    {[task |-> cancel_processing(t), alive |-> n] : n \in cancel_vad_processes(t)}
    \cup (IF \/ t.kind = "fetch" /\ t.pc = "downloading"
             \/ t.kind = "create_cues" /\ t.pc \in {"vad", "vad_workers"}
          THEN {[task |-> [t EXCEPT !.pc = "finished"], alive |-> 0]}
          ELSE {})

\* the pipeline fields after cancel_processing and the cascade: when the
\* trimming task is cancelled, proceed_with_transcription catches the
\* CancelledError and runs restart_at_step(CONFIGURE_ASR) before the
\* caller of cancel_processing resumes
CancelAndRestart(restart_step) ==
    restart_at_step(restart_step,
        IF task.kind = "transcribe" /\ task.pc = "trimming"
        THEN restart_at_step("configure_asr", PipelineState)
        ELSE PipelineState)

\* the objects an AI request holds stay as they were when the chapter list
\* is replaced
Orphaned(new_chapters) ==
    IF ai.active /\ ai.orphans = <<>> /\ new_chapters # chapters
    THEN [ai EXCEPT !.orphans = Captured]
    ELSE ai

\* AppState.delete_pipeline: the pipeline object is dropped
drop_pipeline ==
    /\ pipeline' = FALSE
    /\ step' = "idle"
    /\ chapters' = <<>>
    /\ history_stack' = <<>>
    /\ history_index' = -1
    /\ existing_cue_sources' = <<>>
    /\ cues' = <<>>
    /\ segment_files' = 0
    /\ trimmed_segment_files' = 0
    /\ transcriptions' = <<>>
    /\ transcribed_chapters' = <<>>
    /\ cue_sets' = EmptyDict
    /\ include_unaligned' = <<>>
    /\ ai' = NoAI

\* AppState.delete_pipeline with no fetch in flight
delete_pipeline_state ==
    /\ drop_pipeline
    /\ task' = NoTask

\* restart_at_step(restart_step) as a whole, called by name; alive is the
\* number of subprocesses that are alive when it returns
Restarted(restart_step, name, status, alive) ==
    /\ IF restart_step = "idle"
       THEN delete_pipeline_state
       ELSE LET s == CancelAndRestart(restart_step)
            IN  /\ step' = s.step
                /\ chapters' = s.chapters
                /\ history_stack' = s.history_stack
                /\ history_index' = s.history_index
                /\ cues' = s.cues
                /\ segment_files' = s.segment_files
                /\ trimmed_segment_files' = s.trimmed_segment_files
                /\ transcriptions' = s.transcriptions
                /\ transcribed_chapters' = s.transcribed_chapters
                /\ cue_sets' = s.cue_sets
                /\ include_unaligned' = s.include_unaligned
                /\ ai' = Orphaned(s.chapters)
                /\ UNCHANGED <<pipeline, existing_cue_sources>>
    /\ last' = [Last(name, status) EXCEPT !.level = restart_step,
                                          !.from = step,
                                          !.alive = alive]
    /\ trail' = NoTrail

\* restart_at_step called by the task itself, whose subprocesses have ended
DoRestart(restart_step, name, status) ==
    Restarted(restart_step, name, status, 0)

\* POST /pipeline/restart
restart_pipeline(restart_step) ==
    /\ pipeline
    /\ \E o \in cancel_outcomes(task) :
          /\ Restarted(restart_step, "restart", "ok", o.alive)
          /\ restart_step # "idle" => task' = o.task

\* cancel_step with every branch restarting at SELECT_CUE_SOURCE
cancel_level_to_source == "select_cue_source"

\* POST /pipeline/cancel: the level the route restarts at
cancel_level ==
    CASE step \in {"audio_analysis", "vad_prep", "vad_analysis"} ->
            "select_cue_source"
      [] step = "audio_extraction" ->
            IF cue_sets # EmptyDict THEN "cue_set_selection"
            ELSE "select_cue_source"
      [] step \in {"trimming", "asr_processing"} -> "configure_asr"
      [] OTHER -> "select_cue_source"

\* the background task of POST /pipeline after the pipeline it works on has
\* been dropped: nothing holds a handle on start_processing, so fetch_item
\* goes on with the detached pipeline object
Detached(t) ==
    IF t.kind = "fetch" THEN [t EXCEPT !.kind = "orphan_fetch"] ELSE NoTask

cancel_step ==
    /\ pipeline
    /\ IF step \in {"validating", "downloading"}
       THEN /\ drop_pipeline
            /\ task' = Detached(task)
            /\ last' = [Last("cancel", "deleted") EXCEPT !.from = step]
            /\ trail' = NoTrail
       ELSE \E o \in cancel_outcomes(task) :
               /\ Restarted(cancel_level, "cancel", "ok", o.alive)
               /\ task' = o.task

\* DELETE /pipeline
delete_pipeline ==
    /\ pipeline
    /\ delete_pipeline_state
    /\ last' = Last("delete_pipeline", "ok")
    /\ trail' = NoTrail

\* ------------------------------------------------------------ fetching
Task(kind, pc, arg) == [kind |-> kind, pc |-> pc, arg |-> arg]

Note(name, status) ==
    /\ last' = Last(name, status)
    /\ trail' = NoTrail

\* the cue sources fetch_item finds for the book: the chapters Audiobookshelf
\* has, the last of them past the end of the audio
Sources == <<[id |-> "abs", cues |-> <<0, 4, Duration + 2>>]>>

\* POST /pipeline: a pipeline is created and fetch_item is queued
create_pipeline ==
    /\ ~pipeline
    /\ pipeline' = TRUE
    /\ task' = Task("fetch", "start", NoArg)
    /\ Note("create_pipeline", "ok")
    /\ UNCHANGED <<step, chapters, history_stack, history_index,
                   existing_cue_sources, cues, segment_files,
                   trimmed_segment_files, transcriptions, transcribed_chapters,
                   cue_sets, include_unaligned, ai>>

\* fetch_item: _notify_progress(Step.VALIDATING, ...)
fetch_start ==
    /\ task.kind = "fetch" /\ task.pc = "start"
    /\ step' = "validating"
    /\ task' = [task EXCEPT !.pc = "validating"]
    /\ Note("fetch", "validating")
    /\ UNCHANGED <<pipeline, chapters, history_stack, history_index,
                   existing_cue_sources, cues, segment_files,
                   trimmed_segment_files, transcriptions, transcribed_chapters,
                   cue_sets, include_unaligned, ai>>

\* fetch_item: the validation ends; on success the cue sources are stored
\* and the download starts, on failure restart_at_step(IDLE)
fetch_validated(ok) ==
    /\ task.kind = "fetch" /\ task.pc = "validating"
    /\ IF ok
       THEN /\ existing_cue_sources' = existing_cue_sources \o Sources
            /\ step' = "downloading"
            /\ task' = [task EXCEPT !.pc = "downloading"]
            /\ Note("fetch", "downloading")
            /\ UNCHANGED <<pipeline, chapters, history_stack, history_index,
                           cues, segment_files, trimmed_segment_files,
                           transcriptions, transcribed_chapters, cue_sets,
                           include_unaligned, ai>>
       ELSE DoRestart("idle", "fetch", "failed")

\* fetch_item: the download ends; a book of several files is concatenated
\* (FILE_PREP) before the cue source is asked for
fetch_downloaded(ok, multi_file) ==
    /\ task.kind = "fetch" /\ task.pc \in {"downloading", "finished"}
    /\ IF ~ok
       THEN DoRestart("idle", "fetch", "failed")
       ELSE /\ IF step \notin {"downloading", "file_prep"}
               THEN /\ task' = NoTask
                    /\ Note("fetch", "cancelled")
                    /\ UNCHANGED step
               ELSE IF multi_file
               THEN /\ step' = "file_prep"
                    /\ task' = [task EXCEPT !.pc = "file_prep"]
                    /\ Note("fetch", "file_prep")
               ELSE /\ step' = "select_cue_source"
                    /\ task' = NoTask
                    /\ Note("fetch", "ok")
            /\ UNCHANGED <<pipeline, chapters, history_stack, history_index,
                           existing_cue_sources, cues, segment_files,
                           trimmed_segment_files, transcriptions,
                           transcribed_chapters, cue_sets, include_unaligned,
                           ai>>

\* how fetch_item ends on a detached pipeline: it completes, it returns
\* "Download was cancelled", or it raises
OrphanOutcomes == {"ok", "cancelled", "failed"}

\* start_processing of POST /pipeline, the rest of it after the pipeline was
\* dropped: unless fetch_item raises, the route broadcasts the step change
\* to SELECT_CUE_SOURCE; the writes of fetch_item go to the detached object
orphan_fetch_done(outcome) ==
    /\ task.kind = "orphan_fetch"
    /\ task' = NoTask
    /\ Note("orphan_fetch", outcome)
    /\ UNCHANGED <<pipeline, step, chapters, history_stack, history_index,
                   existing_cue_sources, cues, segment_files,
                   trimmed_segment_files, transcriptions, transcribed_chapters,
                   cue_sets, include_unaligned, ai>>

\* how audio_service.concat_files can end: with the concatenated file, with
\* no file, or with an exception
ConcatOutcomes == {"file", "none", "raised"}

\* fetch_item: the concatenation ends. Without a concatenated file a warning
\* is logged and the original files are kept; in both cases
\* self.step = Step.SELECT_CUE_SOURCE. An exception restarts at IDLE.
fetch_prepared(concatenated_file) ==
    /\ task.kind = "fetch" /\ task.pc = "file_prep"
    /\ IF concatenated_file = "raised"
       THEN DoRestart("idle", "fetch", "failed")
       ELSE /\ step' = "select_cue_source"
            /\ task' = NoTask
            /\ Note("fetch", IF concatenated_file = "file" THEN "ok"
                             ELSE "concat_failed")
            /\ UNCHANGED <<pipeline, chapters, history_stack, history_index,
                           existing_cue_sources, cues, segment_files,
                           trimmed_segment_files, transcriptions,
                           transcribed_chapters, cue_sets, include_unaligned,
                           ai>>

\* ------------------------------------------------------------ cue sources
\* options a cue-source request can carry ("embedded" is not a source of
\* the book)
CueSourceOptions == {"smart_detect", "smart_detect_vad", "abs", "embedded"}

\* what get_clustered_cue_sets can return: nothing when fewer than two
\* silences were found, else cue lists by chapter count
CueSetFamilies == {EmptyDict, (2 :> <<0, 4>>) @@ (3 :> <<0, 2, 4>>)}

\* ProcessingPipeline._get_existing_cue_source: position of the source, or 0
existing_source(id) ==
    IF \E i \in 1..Len(existing_cue_sources) : existing_cue_sources[i].id = id
    THEN CHOOSE i \in 1..Len(existing_cue_sources) :
            existing_cue_sources[i].id = id
    ELSE 0

\* ProcessingPipeline._filter_cues_by_duration
filter_cues_by_duration(cs) == SelectSeq(cs, LAMBDA cue : cue < Duration)

UNCHANGED_store == UNCHANGED <<pipeline, chapters, history_stack, history_index,
                               existing_cue_sources, ai>>

\* select_cue_source without its step check
select_cue_source_any_step(option) ==
    /\ pipeline
    /\ task = NoTask
    /\ task' = Task("create_cues", "start", [NoArg EXCEPT !.option = option])
    /\ Note("select_cue_source", "ok")
    /\ UNCHANGED <<step, cues, segment_files, trimmed_segment_files,
                   transcriptions, transcribed_chapters, cue_sets,
                   include_unaligned>>
    /\ UNCHANGED_store

\* POST /pipeline/cue-source
select_cue_source(option) ==
    /\ pipeline
    /\ IF step # "select_cue_source"
       THEN Refuse("select_cue_source", "rejected")
       ELSE /\ task = NoTask
            /\ task' = Task("create_cues", "start", [NoArg EXCEPT !.option = option])
            /\ Note("select_cue_source", "ok")
            /\ UNCHANGED <<step, cues, segment_files, trimmed_segment_files,
                           transcriptions, transcribed_chapters, cue_sets,
                           include_unaligned>>
            /\ UNCHANGED_store

\* the task of a failed step ends with restart_at_step(restart_step)
FailAt(restart_step, name, next_task) ==
    /\ DoRestart(restart_step, name, "failed")
    /\ task' = next_task

\* create_cues_from_source up to its first await
create_cues_start ==
    /\ task.kind = "create_cues" /\ task.pc = "start"
    /\ CASE task.arg.option = "smart_detect" ->
                /\ step' = "audio_analysis"
                /\ task' = [task EXCEPT !.pc = "analysis"]
                /\ Note("create_cues", "audio_analysis")
                /\ UNCHANGED <<cues, segment_files, trimmed_segment_files,
                               transcriptions, transcribed_chapters, cue_sets,
                               include_unaligned>>
                /\ UNCHANGED_store
         [] task.arg.option = "smart_detect_vad" ->
                /\ step' = "vad_prep"
                /\ task' = [task EXCEPT !.pc = "vad"]
                /\ Note("create_cues", "vad_prep")
                /\ UNCHANGED <<cues, segment_files, trimmed_segment_files,
                               transcriptions, transcribed_chapters, cue_sets,
                               include_unaligned>>
                /\ UNCHANGED_store
         [] OTHER ->
                IF existing_source(task.arg.option) = 0
                THEN FailAt("select_cue_source", "create_cues", NoTask)
                ELSE /\ step' = "audio_extraction"
                     /\ cues' = filter_cues_by_duration(
                           existing_cue_sources[existing_source(task.arg.option)].cues)
                     /\ task' = [task EXCEPT !.pc = "extract",
                                              !.arg.clips = Len(cues')]
                     /\ Note("create_cues", "audio_extraction")
                     /\ UNCHANGED <<segment_files, trimmed_segment_files,
                                    transcriptions, transcribed_chapters,
                                    cue_sets, include_unaligned>>
                     /\ UNCHANGED_store

\* _cluster_and_set_cues
cluster_and_set_cues(family, name, status) ==
    /\ step' = "cue_set_selection"
    /\ cue_sets' = family
    /\ task' = NoTask
    /\ Note(name, status)
    /\ UNCHANGED <<cues, segment_files, trimmed_segment_files, transcriptions,
                   transcribed_chapters, include_unaligned>>
    /\ UNCHANGED_store

\* the coroutine sees that the step was changed under it and returns
Stopped(name) ==
    /\ task' = NoTask
    /\ Note(name, "cancelled")
    /\ UNCHANGED <<step, cues, segment_files, trimmed_segment_files,
                   transcriptions, transcribed_chapters, cue_sets,
                   include_unaligned>>
    /\ UNCHANGED_store

\* _detect_cues after get_silence_boundaries
detect_done(ok, family) ==
    /\ task.kind = "create_cues" /\ task.pc = "analysis"
    /\ IF ~ok THEN FailAt("select_cue_source", "detect", NoTask)
       ELSE IF step # "audio_analysis" THEN Stopped("detect")
       ELSE cluster_and_set_cues(family, "detect", "ok")

\* VadDetectionService._run_vad_processing_async: the chunks are split,
\* _notify_progress(Step.VAD_ANALYSIS, ...), and the worker subprocesses start
vad_progress ==
    /\ task.kind = "create_cues" /\ task.pc = "vad"
    /\ step' = "vad_analysis"
    /\ task' = [task EXCEPT !.pc = "vad_workers"]
    /\ Note("vad", "vad_analysis")
    /\ UNCHANGED <<cues, segment_files, trimmed_segment_files, transcriptions,
                   transcribed_chapters, cue_sets, include_unaligned>>
    /\ UNCHANGED_store

\* how get_vad_silence_boundaries can end: with the gaps that were found;
\* with an empty list, which _run_vad_processing_async returns when no chunk
\* was created or an exception was caught; or with an exception
ScanOutcomes == {"gaps", "scan_failed", "raised"}

\* _detect_cues_vad after get_vad_silence_boundaries
vad_done(scan, family) ==
    /\ task.kind = "create_cues" /\ task.pc \in {"vad", "vad_workers", "finished"}
    /\ IF scan = "raised" THEN FailAt("select_cue_source", "vad", NoTask)
       ELSE IF step \notin {"vad_prep", "vad_analysis"} THEN Stopped("vad")
       ELSE IF scan = "scan_failed"
       THEN cluster_and_set_cues(EmptyDict, "vad", "scan_failed")
       ELSE cluster_and_set_cues(family, "vad", "ok")

\* ------------------------------------------------------------- cue sets
\* 5.0 s in ticks (_merge_unaligned_timestamps: tolerance)
Tolerance == 40

Sorted(ts) == SortSeq(ts, LAMBDA a, b : a < b)

Near(t, ts, tolerance) ==
    \E i \in 1..Len(ts) : Abs(t - ts[i]) <= tolerance

\* _deduplicate_timestamps, the loop over sorted(non_priority)
RECURSIVE AddDistinct(_, _, _)
AddDistinct(deduplicated, non_priority, tolerance) ==
    IF non_priority = <<>> THEN deduplicated
    ELSE AddDistinct(
            IF Near(Head(non_priority), deduplicated, tolerance)
            THEN deduplicated
            ELSE Append(deduplicated, Head(non_priority)),
            Tail(non_priority), tolerance)

\* ProcessingPipeline._deduplicate_timestamps with priority timestamps
deduplicate_timestamps(timestamps, tolerance, priority_timestamps) ==
    IF timestamps = <<>> THEN <<>>
    ELSE Sorted(AddDistinct(
            Sorted(priority_timestamps),
            Sorted(SelectSeq(timestamps,
                LAMBDA t : \A i \in 1..Len(priority_timestamps) :
                              priority_timestamps[i] # t)),
            tolerance))

\* _merge_unaligned_timestamps, the loop over include_unaligned
RECURSIVE all_unaligned_timestamps(_, _)
all_unaligned_timestamps(selected_timestamps, include) ==
    IF include = <<>> THEN <<>>
    ELSE (IF existing_source(Head(include)) = 0 THEN <<>>
          ELSE SelectSeq(existing_cue_sources[existing_source(Head(include))].cues,
                         LAMBDA t : ~Near(t, selected_timestamps, Tolerance)))
         \o all_unaligned_timestamps(selected_timestamps, Tail(include))

\* ProcessingPipeline._merge_unaligned_timestamps
merge_unaligned_timestamps(selected_timestamps, include) ==
    IF include = <<>> \/ existing_cue_sources = <<>> THEN selected_timestamps
    ELSE deduplicate_timestamps(
            selected_timestamps
                \o all_unaligned_timestamps(selected_timestamps, include),
            Tolerance, selected_timestamps)

\* chapter counts a request can carry: none, the counts of the cue sets and
\* one that no cue set has
ChapterCounts == {0, 2, 3, 4}

\* include_unaligned lists a request can carry
IncludeLists == {<<>>, <<"abs">>, <<"embedded">>}

\* POST /pipeline/select-cue-set
select_cue_set(chapter_count, include) ==
    /\ pipeline
    /\ IF \/ step # "cue_set_selection"
          \/ chapter_count = 0
          \/ \E i \in 1..Len(include) : existing_source(include[i]) = 0
       THEN Refuse("select_cue_set", "rejected")
       ELSE /\ task = NoTask
            /\ task' = Task("select_cue_set", "start",
                            [NoArg EXCEPT
                                !.chapter_count = chapter_count,
                                !.include_unaligned = include])
            /\ Note("select_cue_set", "ok")
            /\ UNCHANGED <<step, cues, segment_files, trimmed_segment_files,
                           transcriptions, transcribed_chapters, cue_sets,
                           include_unaligned>>
            /\ UNCHANGED_store

\* ProcessingPipeline.select_cue_set up to the await in
\* _extract_audio_segments
select_cue_set_start ==
    /\ task.kind = "select_cue_set" /\ task.pc = "start"
    /\ IF task.arg.chapter_count \notin DOMAIN cue_sets
       THEN FailAt("cue_set_selection", "select_cue_set_task", NoTask)
       ELSE /\ cues' = filter_cues_by_duration(
                  IF task.arg.include_unaligned # <<>>
                  THEN merge_unaligned_timestamps(
                          cue_sets[task.arg.chapter_count],
                          task.arg.include_unaligned)
                  ELSE cue_sets[task.arg.chapter_count])
            /\ include_unaligned' = task.arg.include_unaligned
            /\ step' = "audio_extraction"
            /\ task' = [task EXCEPT !.pc = "extract", !.arg.clips = Len(cues')]
            /\ Note("select_cue_set_task", "audio_extraction")
            /\ UNCHANGED <<segment_files, trimmed_segment_files, transcriptions,
                           transcribed_chapters, cue_sets>>
            /\ UNCHANGED_store

\* extract_segments after audio_service.extract_segments: a failure restarts
\* at CUE_SET_SELECTION, and create_cues_from_source then sees the exception
extract_done(ok) ==
    /\ task.kind \in {"create_cues", "select_cue_set"} /\ task.pc = "extract"
    /\ IF ~ok
       THEN FailAt("cue_set_selection", "extract",
                   IF task.kind = "create_cues"
                   THEN [task EXCEPT !.pc = "raised"] ELSE NoTask)
       ELSE /\ IF step # "audio_extraction"
               THEN /\ \E n \in {0, task.arg.clips} : segment_files' = n
                    /\ Note("extract", "cancelled")
                    /\ UNCHANGED step
               ELSE /\ segment_files' = task.arg.clips
                    /\ step' = "configure_asr"
                    /\ Note("extract", "ok")
            /\ task' = NoTask
            /\ UNCHANGED <<cues, trimmed_segment_files, transcriptions,
                           transcribed_chapters, cue_sets, include_unaligned>>
            /\ UNCHANGED_store

\* create_cues_from_source: except Exception, restart at SELECT_CUE_SOURCE
create_cues_raised ==
    /\ task.kind = "create_cues" /\ task.pc = "raised"
    /\ FailAt("select_cue_source", "create_cues", NoTask)

\* ------------------------------------------------------------ transcription
ASRActions == {"transcribe", "skip", "other"}

\* POST /pipeline/configure-asr
\* a second skip request that arrives while the background task of the
\* first has not begun: the step is still CONFIGURE_ASR and the route queues
\* a second task behind the first
SecondSkip(action) ==
    /\ action = "skip"
    /\ task.kind = "skip" /\ task.pc = "start"
    /\ task.arg.queued = 0

configure_asr(action) ==
    /\ pipeline
    /\ IF step # "configure_asr" \/ action \notin {"transcribe", "skip"}
       THEN Refuse("configure_asr", "rejected")
       ELSE /\ \/ /\ task = NoTask
                  /\ task' = Task(action, "start", NoArg)
               \/ /\ SecondSkip(action)
                  /\ task' = [task EXCEPT !.arg.queued = 1]
            /\ Note("configure_asr", "ok")
            /\ UNCHANGED <<step, cues, segment_files, trimmed_segment_files,
                           transcriptions, transcribed_chapters, cue_sets,
                           include_unaligned>>
            /\ UNCHANGED_store

\* the chapter a minted id stands for: the object of the list, if it is there
ChapterOf(id) ==
    IF find_chapter(chapters, id) # 0 THEN chapters[find_chapter(chapters, id)]
    ELSE ChapterData(id, 0, "")

\* _create_initial_chapters and skip_transcription: a chapter per cue, with
\* id = i, is appended to transcribed_chapters, and chapters is a copy of it
Mint(titles) ==
    LET minted == [i \in 1..Len(cues) |->
                      ChapterData(i - 1, cues[i],
                                  IF i <= Len(titles) THEN titles[i] ELSE "")]
        new_chapters ==
            [k \in 1..Len(transcribed_chapters) |->
                ChapterOf(transcribed_chapters[k])] \o minted
    IN  /\ transcribed_chapters' =
              transcribed_chapters \o [i \in 1..Len(cues) |-> i - 1]
        /\ chapters' = new_chapters
        /\ ai' = Orphaned(new_chapters)
        /\ step' = "chapter_editing"

\* ProcessingPipeline.skip_transcription
skip_transcription ==
    /\ task.kind = "skip" /\ task.pc = "start"
    /\ Mint(<<>>)
    /\ transcriptions' = [i \in 1..Len(cues) |-> ""]
    /\ task' = IF task.arg.queued > 0 THEN Task("skip", "start", NoArg)
               ELSE NoTask
    /\ Note("skip_transcription", "ok")
    /\ UNCHANGED <<pipeline, history_stack, history_index, existing_cue_sources,
                   cues, segment_files, trimmed_segment_files, cue_sets,
                   include_unaligned>>

\* proceed_with_transcription up to the await of the trimming task
transcribe_start ==
    /\ task.kind = "transcribe" /\ task.pc = "start"
    /\ step' = "asr_processing"
    /\ task' = [task EXCEPT !.pc = "trimming"]
    /\ Note("transcribe", "trimming")
    /\ UNCHANGED <<cues, segment_files, trimmed_segment_files, transcriptions,
                   transcribed_chapters, cue_sets, include_unaligned>>
    /\ UNCHANGED_store

\* _create_trimmed_segments after the trimming task, then
\* _transcribe_segments up to the executor
trim_done(ok) ==
    /\ task.kind = "transcribe" /\ task.pc = "trimming"
    /\ IF ~ok THEN FailAt("configure_asr", "trim", NoTask)
       ELSE /\ trimmed_segment_files' = segment_files
            /\ step' = "asr_processing"
            /\ task' = [task EXCEPT !.pc = "asr", !.arg.clips = segment_files]
            /\ Note("trim", "ok")
            /\ UNCHANGED <<cues, segment_files, transcriptions,
                           transcribed_chapters, cue_sets, include_unaligned>>
            /\ UNCHANGED_store

\* ASRService.transcribe: _notify_progress(Step.ASR_PROCESSING, ...) after a
\* clip is transcribed.  The transcription runs in the event loop of an
\* executor thread and goes on after cancel_processing has called cancel()
\* on its task without awaiting it.
asr_progress ==
    /\ task.kind = "transcribe" /\ task.pc \in {"asr", "asr_cancelled"}
    /\ step' = "asr_processing"
    /\ Note("asr", "progress")
    /\ UNCHANGED <<cues, segment_files, trimmed_segment_files, transcriptions,
                   transcribed_chapters, cue_sets, include_unaligned, task>>
    /\ UNCHANGED_store

\* the sentinel ASRService.transcribe returns for a file it could not
\* transcribe
TranscriptionError == "[Transcription Error]"

\* the files whose recognition raises, for a batch of n: none, or any one
FailurePatterns(n) == {{}} \cup {{i} : i \in 1..n}

\* a transcription loop that leaves the failed files out of the result
RECURSIVE transcribe_dropping_failures(_, _, _, _)
transcribe_dropping_failures(i, audio_files, failed, result) ==
    IF i > audio_files THEN result
    ELSE transcribe_dropping_failures(
             i + 1, audio_files, failed,
             IF i \in failed THEN result
             ELSE Append(result, "a"))

\* ASRService.transcribe, the loop from file i on: the recogniser's text
\* ("a") is appended for a file it transcribes, the sentinel for a file on
\* which it raises
RECURSIVE transcribe_loop(_, _, _, _)
transcribe_loop(i, audio_files, failed, result) ==
    IF i > audio_files THEN result
    ELSE transcribe_loop(
             i + 1, audio_files, failed,
             Append(result,
                    IF i \in failed THEN TranscriptionError ELSE "a"))

\* ASRService.transcribe for the clips 1..audio_files
transcribe(audio_files, failed) == transcribe_loop(1, audio_files, failed, <<>>)

\* _transcribe_segments after the executor, then _create_initial_chapters;
\* the recogniser was given the list of trimmed clips when it started
\* (task.arg.clips) and self.transcriptions is assigned before the step is
\* checked;
\* the transcription may also end normally after it was cancelled
asr_done(ok, failed) ==
    /\ task.kind = "transcribe" /\ task.pc \in {"asr", "asr_cancelled"}
    /\ IF ~ok THEN FailAt("configure_asr", "asr", NoTask)
       ELSE /\ transcriptions' = transcribe(task.arg.clips, failed)
            /\ IF step # "asr_processing"
               THEN /\ last' = [Last("asr", "cancelled") EXCEPT
                                   !.paths = task.arg.clips, !.failed = failed]
                    /\ trail' = NoTrail
                    /\ UNCHANGED <<step, chapters, transcribed_chapters, ai>>
               ELSE /\ Mint(transcribe(task.arg.clips, failed))
                    /\ last' = [Last("asr", "ok") EXCEPT
                                   !.paths = task.arg.clips, !.failed = failed]
                    /\ trail' = NoTrail
            /\ task' = NoTask
            /\ UNCHANGED <<pipeline, history_stack, history_index,
                           existing_cue_sources, cues, segment_files,
                           trimmed_segment_files, cue_sets, include_unaligned>>

\* proceed_with_transcription: except asyncio.CancelledError, when the
\* cancelled transcription task ends
transcription_cancelled ==
    /\ task.kind = "transcribe" /\ task.pc = "asr_cancelled"
    /\ DoRestart("configure_asr", "transcription_cancelled", "ok")
    /\ task' = NoTask

\* ------------------------------------------------------ review and submit
\* POST /pipeline/goto-review
goto_review ==
    /\ pipeline
    /\ IF step # "chapter_editing"
       THEN Refuse("goto_review", "rejected")
       ELSE /\ step' = "reviewing"
            /\ Note("goto_review", "ok")
            /\ UNCHANGED <<cues, segment_files, trimmed_segment_files,
                           transcriptions, transcribed_chapters, cue_sets,
                           include_unaligned, task>>
            /\ UNCHANGED_store

\* a submit that completes the pipeline whatever the upload returned
submit_chapters_always_completing(success) ==
    /\ pipeline
    /\ IF step \notin {"chapter_editing", "reviewing"}
       THEN Refuse("submit", "rejected")
       ELSE /\ step' = "completed"
            /\ last' = [Last("submit", IF success THEN "ok" ELSE "failed")
                           EXCEPT !.upload =
                               formatted_chapters(chapter_data(chapters),
                                                  Duration)]
            /\ trail' = NoTrail
            /\ UNCHANGED <<cues, segment_files, trimmed_segment_files,
                           transcriptions, transcribed_chapters, cue_sets,
                           include_unaligned, task>>
            /\ UNCHANGED_store

\* POST /pipeline/submit
submit_chapters(success) ==
    /\ pipeline
    /\ IF step \notin {"chapter_editing", "reviewing"}
       THEN Refuse("submit", "rejected")
       ELSE /\ step' = IF success THEN "completed" ELSE "reviewing"
            /\ last' = [Last("submit", IF success THEN "ok" ELSE "failed")
                           EXCEPT !.upload =
                               formatted_chapters(chapter_data(chapters),
                                                  Duration)]
            /\ trail' = NoTrail
            /\ UNCHANGED <<cues, segment_files, trimmed_segment_files,
                           transcriptions, transcribed_chapters, cue_sets,
                           include_unaligned, task>>
            /\ UNCHANGED_store

\* the names under which the steps of the background tasks are noted
TaskNotes ==
    {"fetch", "create_cues", "detect", "vad", "select_cue_set_task", "extract",
     "skip_transcription", "transcribe", "trim", "asr",
     "transcription_cancelled"}

\* the events handed to the observers
StepChange(new_step) ==
    [type |-> "step_change", step |-> new_step, percent |-> 0]

Progress(at_step, percent) ==
    [type |-> "progress_update", step |-> at_step, percent |-> percent]

\* ProcessingPipeline._notify_progress: the step is written, a change of step
\* is broadcast, then the progress callback is called
notify_progress(old_step, new_step, percent) ==
    (IF old_step # new_step THEN <<StepChange(new_step)>> ELSE <<>>)
    \o <<Progress(new_step, percent)>>

\* a run of _notify_progress calls, the first one made in step cur
RECURSIVE Notified(_, _)
Notified(calls, cur) ==
    IF calls = <<>> THEN <<>>
    ELSE notify_progress(cur, Head(calls)[1], Head(calls)[2])
         \o Notified(Tail(calls), Head(calls)[1])

\* the _notify_progress calls (step, percent) of each request or task step;
\* a percentage that is computed from a position is written as 50
NotifyCalls(op, status, old_step) ==
    CASE op = "fetch" /\ status = "validating" -> <<<<"validating", 0>>>>
      [] op = "fetch" /\ status = "downloading" ->
            <<<<"validating", 0>>, <<"downloading", 0>>>>
      [] op = "fetch" /\ status = "file_prep" ->
            <<<<"downloading", 100>>, <<"downloading", 100>>, <<"file_prep", 0>>>>
      [] op = "fetch" /\ status = "ok" /\ old_step = "downloading" ->
            <<<<"downloading", 100>>, <<"downloading", 100>>>>
      [] op = "create_cues" /\ status \in {"audio_analysis", "vad_prep",
                                            "audio_extraction"} ->
            <<<<status, 0>>>>
      [] op = "detect" /\ status = "ok" ->
            <<<<"audio_analysis", 100>>, <<"cue_set_selection", 0>>,
              <<"cue_set_selection", 100>>>>
      [] op = "vad" /\ status = "vad_analysis" -> <<<<"vad_analysis", 0>>>>
      [] op = "vad" /\ status \in {"ok", "scan_failed"} ->
            <<<<"vad_analysis", 100>>, <<"cue_set_selection", 0>>,
              <<"cue_set_selection", 100>>>>
      [] op = "select_cue_set_task" /\ status = "audio_extraction" ->
            <<<<"audio_extraction", 0>>>>
      [] op = "extract" /\ status = "ok" ->
            <<<<"audio_extraction", 100>>, <<"configure_asr", 0>>>>
      [] op = "skip_transcription" /\ status = "ok" ->
            <<<<"chapter_editing", 0>>>>
      [] op = "transcribe" /\ status = "trimming" ->
            <<<<"asr_processing", 0>>>>
      [] op = "trim" /\ status = "ok" ->
            <<<<"asr_processing", 100>>, <<"asr_processing", 0>>>>
      [] op = "asr" /\ status = "progress" -> <<<<"asr_processing", 50>>>>
      [] op = "asr" /\ status = "ok" ->
            <<<<"asr_processing", 100>>, <<"asr_processing", 100>>,
              <<"chapter_editing", 0>>, <<"chapter_editing", 100>>>>
      [] op = "submit" /\ status = "ok" -> <<<<"completed", 100>>>>
      [] op = "ai_cleanup" /\ status \in {"started", "failed"} ->
            <<<<"ai_cleanup", 0>>>>
      [] op = "ai_cleanup_done" /\ status = "ok" ->
            <<<<"chapter_editing", 100>>>>
      [] OTHER -> <<>>

\* the step_change a request or task step broadcasts by itself
Broadcasts(op, status, new_step) ==
    CASE \/ op \in {"restart", "transcription_cancelled"}
         \/ op = "cancel" /\ status = "ok"
         \/ op \in TaskNotes /\ status = "failed" ->
            <<StepChange(new_step)>>
      [] op = "fetch" /\ status \in {"ok", "concat_failed"} ->
            <<StepChange(new_step)>>
      [] op \in {"fetch", "orphan_fetch"} /\ status = "cancelled" ->
            <<StepChange("select_cue_source")>>
      [] op = "orphan_fetch" /\ status = "ok" ->
            <<StepChange("select_cue_source")>>
      [] op = "goto_review" /\ status = "ok" -> <<StepChange(new_step)>>
      [] op = "submit" /\ status \in {"ok", "failed"} ->
            <<StepChange(new_step)>>
      [] op \in {"ai_cleanup", "ai_cleanup_done"} /\ status = "failed" ->
            <<StepChange("chapter_editing")>>
      [] OTHER -> <<>>

\* the events of one request or task step, in the order they are handed over
Emitted(op, status, old_step, new_step) ==
    Notified(NotifyCalls(op, status, old_step), old_step)
    \o Broadcasts(op, status, new_step)

\* the position of the last step_change among the events, or 0
LastStepChange(events) ==
    IF \E i \in 1..Len(events) : events[i].type = "step_change"
    THEN CHOOSE i \in 1..Len(events) :
            /\ events[i].type = "step_change"
            /\ \A j \in (i + 1)..Len(events) : events[j].type # "step_change"
    ELSE 0

\* the observers' view after the events of a step
Observe ==
    LET events == Emitted(last'.op, last'.status, step, step')
        k == LastStepChange(events)
    IN  observed' =
           [announced |-> IF k = 0 THEN observed.announced ELSE events[k].step,
            shown |-> IF Len(events) > k THEN events[Len(events)]
                      ELSE IF k = 0 THEN observed.shown ELSE NoProgress,
            events |-> events]

\* -------------------------------------------------------------------- Next
\* the background tasks, one step at a time
BackgroundTasks ==
    \/ fetch_start
    \/ \E ok \in BOOLEAN : fetch_validated(ok)
    \/ \E ok \in BOOLEAN, multi_file \in BOOLEAN : fetch_downloaded(ok, multi_file)
    \/ \E concatenated_file \in ConcatOutcomes : fetch_prepared(concatenated_file)
    \/ \E outcome \in OrphanOutcomes : orphan_fetch_done(outcome)
    \/ create_cues_start
    \/ \E ok \in BOOLEAN, family \in CueSetFamilies : detect_done(ok, family)
    \/ vad_progress
    \/ \E scan \in ScanOutcomes, family \in CueSetFamilies : vad_done(scan, family)
    \/ create_cues_raised
    \/ select_cue_set_start
    \/ \E ok \in BOOLEAN : extract_done(ok)
    \/ skip_transcription
    \/ transcribe_start
    \/ \E ok \in BOOLEAN : trim_done(ok)
    \/ asr_progress
    \/ \E ok \in BOOLEAN, failed \in FailurePatterns(task.arg.clips) :
          asr_done(ok, failed)
    \/ transcription_cancelled

PipelineRoutes ==
    \/ create_pipeline
    \/ delete_pipeline
    \/ \E option \in CueSourceOptions : select_cue_source(option)
    \/ \E chapter_count \in ChapterCounts, include \in IncludeLists :
          select_cue_set(chapter_count, include)
    \/ \E action \in ASRActions : configure_asr(action)
    \/ goto_review
    \/ \E success \in BOOLEAN : submit_chapters(success)
    \/ \E restart_step \in RestartSteps : restart_pipeline(restart_step)
    \/ cancel_step

\* The chapter requests of the pipeline specification: a title edit of the
\* first chapter of the list (or of no chapter), undo and redo.
FirstIds == {chapters[i].id : i \in 1..Len(chapters) \cap {1}} \cup {NoId}

HistoryRoutes ==
    \/ \E chapter_id \in FirstIds : update_chapter_title(chapter_id, "b")
    \/ undo_action
    \/ redo_action

Next ==
    /\ \/ HistoryRoutes
       \/ PipelineRoutes
       \/ BackgroundTasks
    /\ Observe
    /\ UNCHANGED <<requests, vars_ops, vars_config, vars_pure>>

Spec == Init /\ [][Next]_vars

\* ------------------------------------------------- exports and the upload
\* _format_timestamp_readable, with the timestamp in ticks
format_timestamp_readable(ticks) ==
    LET seconds == ticks \div TicksPerSecond
    IN  [hours |-> seconds \div 3600, minutes |-> (seconds % 3600) \div 60,
         secs |-> seconds % 60]

\* _format_timestamp_for_cue, with the timestamp in ticks
format_timestamp_for_cue(ticks) ==
    LET seconds == ticks \div TicksPerSecond
    IN  [minutes |-> seconds \div 60, secs |-> seconds % 60,
         frames |-> ((ticks % TicksPerSecond) * 75) \div TicksPerSecond]

ExportFormats == {"csv", "json", "cue"}

\* the rows, entries or tracks an export writes for the list
export_rows(format, chs) ==
    LET picked == selected_chapters(chs)
    IN  [idx \in 1..Len(picked) |->
            [chapter |-> idx,
             timestamp |-> IF format = "cue" THEN -1 ELSE picked[idx].timestamp,
             formatted |-> IF format = "cue"
                           THEN format_timestamp_for_cue(picked[idx].timestamp)
                           ELSE format_timestamp_readable(picked[idx].timestamp),
             title |-> picked[idx].current_title]]

\* GET /chapters/export/csv, /json and /cue
export_chapters(format) ==
    /\ IF ~pipeline \/ chapters = <<>>
       THEN last' = Last("export_" \o format, "not_found")
       ELSE IF selected_chapters(chapters) = <<>>
       THEN last' = Last("export_" \o format, "rejected")
       ELSE last' = [Last("export_" \o format, "ok") EXCEPT
                        !.rows = export_rows(format, chapters)]
    /\ trail' = NoTrail
    /\ UNCHANGED <<pipeline, step, chapters, history_stack, history_index,
                   existing_cue_sources, cues, segment_files,
                   trimmed_segment_files, transcriptions, transcribed_chapters,
                   cue_sets, include_unaligned, task, ai>>

\* ------------------------------------------------- the chapter store alone
\* The store specification starts where the pipeline has minted the chapters
\* of the book's own cue source, with transcription ("a") or without (""),
\* and serves up to MaxRequests chapter requests.
InitStore ==
    /\ InitPureIdle
    /\ pipeline = TRUE
    /\ step = "chapter_editing"
    /\ existing_cue_sources = Sources
    /\ cues = filter_cues_by_duration(Sources[1].cues)
    /\ \E title \in {"", "a"} :
          /\ chapters = [i \in 1..Len(cues) |-> ChapterData(i - 1, cues[i], title)]
          /\ transcriptions = [i \in 1..Len(cues) |-> title]
          /\ trimmed_segment_files = IF title = "" THEN 0 ELSE Len(cues)
          /\ last = IF title = "" THEN Last("skip_transcription", "ok")
                    ELSE Last("asr", "ok")
          /\ observed = Quiet("chapter_editing",
                              [NoProgress EXCEPT
                                  !.step = "chapter_editing",
                                  !.percent = IF title = "" THEN 0 ELSE 100])
    /\ transcribed_chapters = [i \in 1..Len(cues) |-> i - 1]
    /\ segment_files = Len(cues)
    /\ history_stack = <<>>
    /\ history_index = -1
    /\ cue_sets = EmptyDict
    /\ include_unaligned = <<>>
    /\ task = NoTask
    /\ ai = NoAI
    /\ trail = NoTrail
    /\ requests = 0
    /\ InitOpsIdle
    /\ InitConfigIdle

EditTitles == {"b"}
AddTitles == {"", "b"}

ChapterRoutes ==
    \/ \E chapter_id \in RequestIds, title \in EditTitles :
          update_chapter_title(chapter_id, title)
    \/ \E chapter_id \in RequestIds, value \in BOOLEAN :
          toggle_chapter_selection(chapter_id, value)
    \/ \E chapter_id \in RequestIds : delete_chapter(chapter_id)
    \/ select_all
    \/ deselect_all
    \/ \E created \in BOOLEAN : ai_cleanup(created)
    \/ \E processed_titles \in ProcessedTitles(Len(ai.ids)) :
          ai_cleanup_done(processed_titles)
    \/ ai_cleanup_failed
    \/ undo_action
    \/ redo_action
    \/ \E timestamp \in AddTimestamps, title \in AddTitles :
          add_chapter(timestamp, title)
    \/ \E format \in ExportFormats : export_chapters(format)
    \/ \E success \in BOOLEAN : submit_chapters(success)

NextStore ==
    /\ requests < MaxRequests
    /\ ChapterRoutes
    /\ Observe
    /\ requests' = requests + 1
    /\ UNCHANGED <<vars_ops, vars_config, vars_pure>>

SpecStore == InitStore /\ [][NextStore]_vars

\* ------------------------------------------------- the operations alone
\* The operation specification draws a chapter list and an operation that
\* can be applied to it, applies the operation and then undoes it.

\* chapter lists: up to two minted chapters, each with any title, selection
\* flag and deleted flag
OpChapterLists ==
    UNION {[1..n -> [id : {0, 1}, timestamp : {0, 4}, asr_title : {"a"},
                     current_title : {"", "a"}, sel : BOOLEAN,
                     deleted : BOOLEAN]] : n \in 0..2}

OpLists ==
    {chs \in OpChapterLists :
        \A i \in 1..Len(chs) : chs[i].id = i - 1 /\ chs[i].timestamp = 4 * (i - 1)}

\* the operations a route or the pipeline builds for the list: an add of a
\* new chapter, a delete or a title edit of any chapter, a restore of a
\* deleted chapter, an AI clean-up of a selected chapter
Primitives(chs) ==
    {AddChapterOperation([ChapterData(10, t, "b") EXCEPT !.asr_title = ""]) :
        t \in 0..Duration}
    \cup {DeleteChapterOperation(chs[i].id) : i \in 1..Len(chs)}
    \cup {EditTitleOperation(chs[i].id, "b") : i \in 1..Len(chs)}
    \cup {RestoreChapterOperation(chs[i].id, title) :
            i \in {j \in 1..Len(chs) : chs[j].deleted}, title \in {"", "b"}}
    \cup {AICleanupOperation(chs[i].id, chs[i].current_title, title, value) :
            i \in {j \in 1..Len(chs) : selected(chs[j])},
            title \in {"", "b"}, value \in BOOLEAN}

\* batches of two operations, the second one built for the list the first
\* one leaves
Batches(chs) ==
    UNION {{BatchChapterOperation(<<p, q>>) :
                q \in {x \in Primitives(ApplyOne(p, chs)) : x.type # "add"}} :
            p \in {x \in Primitives(chs) : x.type # "add"}}

OpsFor(chs) == Primitives(chs) \cup Batches(chs)

InitOps ==
    /\ InitPipeline
    /\ InitPureIdle
    /\ InitConfigIdle
    /\ o_chapters \in OpLists
    /\ o_op = BatchChapterOperation(<<>>)
    /\ o_before = <<>>
    /\ o_phase = "idle"

\* operation.apply(pipeline)
OpApply(op) ==
    /\ o_phase = "idle"
    /\ o_before' = o_chapters
    /\ o_chapters' = Apply(op, o_chapters)
    /\ o_op' = Capture(op, o_chapters)
    /\ o_phase' = "applied"

\* operation.undo(pipeline)
OpUndo ==
    /\ o_phase = "applied"
    /\ o_chapters' = Undo(o_op, o_chapters)
    /\ o_phase' = "undone"
    /\ UNCHANGED <<o_op, o_before>>

NextOps ==
    /\ \/ \E op \in OpsFor(o_chapters) : OpApply(op)
       \/ OpUndo
    /\ UNCHANGED <<vars_pipeline, requests, vars_config, vars_pure>>

SpecOps == InitOps /\ [][NextOps]_vars

InitialChapters ==
    [i \in 1..Len(cues) |->
        ChapterData(i - 1, cues[i],
                    IF i <= Len(transcriptions) THEN transcriptions[i] ELSE "")]

\* one title change or selection change of an AI clean-up entry, replayed
RECURSIVE ReplayTitles(_, _)
ReplayTitles(changes, chs) ==
    IF changes = <<>> THEN chs
    ELSE ReplayTitles(Tail(changes),
            IF find_chapter(chs, Head(changes).chapter_id) = 0 THEN chs
            ELSE [chs EXCEPT ![find_chapter(chs, Head(changes).chapter_id)]
                                .current_title = Head(changes).new_title])

RECURSIVE ReplaySelections(_, _)
ReplaySelections(changes, chs) ==
    IF changes = <<>> THEN chs
    ELSE ReplaySelections(Tail(changes),
            IF find_chapter(chs, Head(changes).chapter_id) = 0 THEN chs
            ELSE [chs EXCEPT ![find_chapter(chs, Head(changes).chapter_id)]
                                .sel = FALSE])

\* one history entry applied again
ReplayOne(entry, chs) ==
    CASE entry.type = "ai_cleanup_batch" ->
            ReplaySelections(entry.selection_changes,
                             ReplayTitles(entry.title_changes, chs))
      [] entry.type = "add" -> AddApply(entry, chs)
      [] OTHER ->
            IF find_chapter(chs, entry.chapter_id) = 0 THEN chs
            ELSE ApplyOne(entry, chs)

\* history entries 1..n applied in order
RECURSIVE Replay(_, _, _)
Replay(stack, n, chs) ==
    IF n = 0 THEN chs
    ELSE ReplayOne(stack[n], Replay(stack, n - 1, chs))

\* C3: the chapter list equals the history operations 0..history_index
\* applied in order to the initially extracted list; every mutation of a
\* chapter goes through a recorded history operation.
C3_ChaptersAreReplayOfHistory ==
    transcribed_chapters # <<>> =>
        Observable(chapters) =
            Observable(Replay(history_stack, history_index + 1, InitialChapters))

\* C4: history_index stays in [-1, len(history_stack) - 1], and an undo at
\* index -1 and a redo at the last index are rejected and leave
\* history_stack and history_index unchanged.
C4_HistoryIndexInRange ==
    /\ [](history_index >= -1 /\ history_index <= Len(history_stack) - 1)
    /\ [][(\/ history_index = -1 /\ undo_action
           \/ history_index = Len(history_stack) - 1 /\ redo_action)
          => /\ last'.status = "rejected"
             /\ UNCHANGED <<history_stack, history_index>>]_vars

\* an undo was refused at index -1 with entries still on the stack
C4_Witness ==
    /\ last.op = "undo" /\ last.status = "rejected"
    /\ history_index = -1
    /\ Len(history_stack) > 0

\* C5: an append after an undo drops every entry after history_index, keeps
\* entries 0..history_index, and leaves the new entry last with
\* history_index = len(history_stack) - 1, so that redo is not possible.
C5_AppendTruncatesRedoTail ==
    [][last'.op = "update_chapter_title" /\ last'.status = "ok"
       => /\ Len(history_stack') = history_index + 2
          /\ SubSeq(history_stack', 1, history_index + 1)
                = SubSeq(history_stack, 1, history_index + 1)
          /\ history_stack'[Len(history_stack')].type = "edit_title"
          /\ history_index' = Len(history_stack') - 1
          /\ ~(history_index' < Len(history_stack') - 1)]_vars

\* an append dropped a redo tail and kept an earlier entry
C5_Witness ==
    /\ last.op = "update_chapter_title" /\ last.status = "ok"
    /\ last.dropped > 0
    /\ history_index > 0

C9_RestartClearsAboveLevel ==
    (last.level \in RestartSteps \ {"idle"}) =>
        /\ step = last.level
        /\ ordinal(last.level) <= ordinal("configure_asr") =>
              /\ trimmed_segment_files = 0
              /\ transcriptions = <<>>
              /\ chapters = <<>>
              /\ history_stack = <<>>
              /\ history_index = -1
        /\ ordinal(last.level) <= ordinal("cue_set_selection") =>
              /\ segment_files = 0
              /\ cues = <<>>
              /\ include_unaligned = <<>>
        /\ ordinal(last.level) <= ordinal("select_cue_source") =>
              DOMAIN cue_sets = {}

\* a restart at SELECT_CUE_SOURCE from the review of minted chapters
C9_Witness ==
    /\ last.op = "restart"
    /\ last.level = "select_cue_source"
    /\ last.from = "reviewing"

\* the restart level a step belongs to (its settled state, or the settled
\* state it works towards)
StepLevel(s) ==
    CASE s \in {"idle", "validating", "downloading", "file_prep"} -> 0
      [] s \in {"select_cue_source", "audio_analysis", "vad_prep",
                "vad_analysis"} -> 1
      [] s \in {"cue_set_selection", "audio_extraction"} -> 2
      [] s \in {"configure_asr", "trimming", "asr_processing"} -> 3
      [] OTHER -> 4

\* C10: restart_at_step never moves the pipeline to a level later than the
\* level of its current step, so CUE_SET_SELECTION is never entered with no
\* cue sets, CONFIGURE_ASR never with no cues, CHAPTER_EDITING never with no
\* minted chapters.
C10_RestartIsRewind ==
    (last.level \in RestartSteps \ {"idle"}) =>
        /\ ordinal(last.level) <= StepLevel(last.from)
        /\ step = "cue_set_selection" => DOMAIN cue_sets # {}
        /\ step = "configure_asr" => cues # <<>>
        /\ step = "chapter_editing" => transcribed_chapters # <<>>

\* ------------------------------------------------------------ subprocesses
\* C11: after restart_at_step(L) or a cancel returns, no subprocess spawned
\* by the pipeline (media-tool processes and VAD workers alike) is alive.
C11_NoSubprocessSurvivesCancel ==
    last.op \in {"restart", "cancel"} => last.alive = 0

\* the steps during which work is in flight: download, energy scan, VAD,
\* extraction, trimming and transcription
InFlightSteps ==
    {"downloading", "audio_analysis", "vad_prep", "vad_analysis",
     "audio_extraction", "trimming", "asr_processing"}

\* C12: once restart_at_step(L) has returned, the step stays L until the next
\* inbound operation: no progress notification and no completion of work
\* that was in flight changes it (stated for the first step the background
\* work takes after a restart or cancel request, made while work was in
\* flight, has returned; a failure of that work is not counted).
C12_StepStaysAfterRestart ==
    [][(/\ last.op \in {"restart", "cancel"}
        /\ last.level \in RestartSteps \ {"idle"}
        /\ last.from \in InFlightSteps
        /\ last'.op \in TaskNotes
        /\ last'.status # "failed")
       => step' = step]_vars

\* C13: work cancelled by restart_at_step(L) never writes derived data above
\* L after the restart has returned: transcriptions, chapters, trimmed and
\* segment file lists and cue sets stay as the restart left them (stated
\* for the first step the background work takes after a restart or cancel
\* request, made while work was in flight, has returned).
C13_NoWriteAfterRestart ==
    [][(/\ last.op \in {"restart", "cancel"}
        /\ last.level \in RestartSteps \ {"idle"}
        /\ last.from \in InFlightSteps
        /\ last'.op \in TaskNotes
        /\ pipeline')
       => /\ ordinal(last.level) <= ordinal("configure_asr") =>
                UNCHANGED <<transcriptions, chapters, transcribed_chapters,
                            trimmed_segment_files>>
          /\ ordinal(last.level) <= ordinal("cue_set_selection") =>
                UNCHANGED <<segment_files, cues>>
          /\ ordinal(last.level) <= ordinal("select_cue_source") =>
                UNCHANGED cue_sets]_vars

PipelineData ==
    <<pipeline, step, chapters, history_stack, history_index,
      existing_cue_sources, cue_sets, cues, include_unaligned, segment_files,
      trimmed_segment_files, transcriptions, transcribed_chapters, task>>

\* the step each step-advancing request is accepted in
SourceState ==
    [select_cue_source |-> "select_cue_source",
     select_cue_set |-> "cue_set_selection",
     configure_asr |-> "configure_asr",
     goto_review |-> "chapter_editing"]

\* the request of that name, with any input
Request(name) ==
    CASE name = "select_cue_source" ->
            \E option \in CueSourceOptions : select_cue_source(option)
      [] name = "select_cue_set" ->
            \E chapter_count \in ChapterCounts, include \in IncludeLists :
                select_cue_set(chapter_count, include)
      [] name = "configure_asr" ->
            \E action \in ASRActions : configure_asr(action)
      [] OTHER -> goto_review

\* C15: select_cue_source, select_cue_set, configure_asr and goto_review are
\* accepted only in SELECT_CUE_SOURCE, CUE_SET_SELECTION, CONFIGURE_ASR and
\* CHAPTER_EDITING respectively, and a request made in another step is
\* rejected and changes neither the step nor any pipeline data.
C15_AcceptedOnlyInSourceState ==
    [][\A name \in DOMAIN SourceState :
          (Request(name) /\ step # SourceState[name])
          => /\ last'.op = name
             /\ last'.status = "rejected"
             /\ UNCHANGED PipelineData]_vars

\* a cue-set request refused in CONFIGURE_ASR with segments already extracted
C15_Witness ==
    /\ last.op = "select_cue_set" /\ last.status = "rejected"
    /\ step = "configure_asr" /\ segment_files > 0

\* the step the observers have been told of when event i of the events
\* reaches them
AnnouncedBefore(announced, events, i) ==
    LET k == LastStepChange(SubSeq(events, 1, i - 1))
    IN  IF k = 0 THEN announced ELSE events[k].step

\* C16: every progress event reaches the observers after the step_change to
\* its step: the step of a progress event is the step of the latest
\* step_change sent before it.
C16_StepChangeBeforeProgress ==
    [][\A i \in 1..Len(observed'.events) :
          observed'.events[i].type = "progress_update"
          => AnnouncedBefore(observed.announced, observed'.events, i)
                = observed'.events[i].step]_vars

\* the progress event that precedes event i within the same step, if any
ShownBefore(shown, events, i) ==
    IF i = 1 THEN shown
    ELSE IF events[i - 1].type = "step_change" THEN NoProgress
    ELSE events[i - 1]

\* C17: within one step the percentages of successive progress events never
\* decrease, from the start of ASR_PROCESSING through trimming to the end of
\* the transcription, and in DOWNLOADING across the files of a book.
C17_PercentNeverDecreases ==
    [][\A i \in 1..Len(observed'.events) :
          LET before == ShownBefore(observed.shown, observed'.events, i)
          IN  (/\ observed'.events[i].type = "progress_update"
               /\ before.step = observed'.events[i].step)
              => before.percent <= observed'.events[i].percent]_vars

\* C18: a failure of validation, of a download or of the file preparation is
\* fatal: the step of fetch_item in which it happens deletes the pipeline
\* and returns to IDLE with an error, and does not reach SELECT_CUE_SOURCE.
C18_FetchFailureIsFatal ==
    [][(/\ task.kind = "fetch"
        /\ last'.op = "fetch"
        /\ last'.status \in {"failed", "concat_failed"})
       => /\ ~pipeline'
          /\ step' = "idle"
          /\ last'.status = "failed"]_vars

\* C19: a cue-detection scan that fails (no chunk, a failed worker batch, an
\* exception of the scan) ends with an error and a restart at
\* SELECT_CUE_SOURCE with no cue sets kept; the pipeline does not enter
\* CUE_SET_SELECTION from it.
C19_FailedScanRestarts ==
    [][(/\ task.kind = "create_cues"
        /\ last'.op \in {"detect", "vad"}
        /\ last'.status \in {"failed", "scan_failed"})
       => /\ step' = "select_cue_source"
          /\ cue_sets' = EmptyDict
          /\ last'.status = "failed"]_vars

\* C20: an AI clean-up that fails, because its provider cannot be created or
\* because the provider call raises, changes no chapter title or selection
\* and appends nothing to the history, so undo and redo stay as they were.
C20_FailedCleanupChangesNothing ==
    [][(\/ ai_cleanup(FALSE) /\ last'.status = "failed"
        \/ ai_cleanup_failed)
       => /\ UNCHANGED <<chapters, history_stack, history_index>>
          /\ can_undo' = can_undo
          /\ can_redo' = can_redo]_vars

\* a provider call has failed after an edit that undo can still reach
C20_Witness ==
    /\ last.op = "ai_cleanup_done" /\ last.status = "failed"
    /\ history_index = 0
    /\ \E i \in 1..Len(chapters) : selected(chapters[i])

\* the chapter ids an AI clean-up entry of the history names
CleanedIds(entry) ==
    {entry.title_changes[k].chapter_id : k \in 1..Len(entry.title_changes)}
    \cup {entry.selection_changes[k].chapter_id :
             k \in 1..Len(entry.selection_changes)}

get_selection_stats ==
    LET total == Len(chapters)
        n_selected == Cardinality({i \in 1..Len(chapters) : selected(chapters[i])})
    IN  [total |-> total, selected |-> n_selected,
         unselected |-> total - n_selected]

Kept == {i \in 1..Len(chapters) : chapters[i].sel /\ ~chapters[i].deleted}

\* the number a kept chapter gets when the kept chapters are counted from 1
\* in list order
Rank(i) == Cardinality({j \in Kept : j <= i})

\* C23: an export (CSV, JSON or CUE) contains exactly the chapters that are
\* selected and not deleted, in list order and numbered consecutively from 1,
\* and is rejected when there is no such chapter; the upload of a submit
\* contains exactly those chapters, in list order and numbered consecutively
\* from 1.
C23_ExportsHoldKeptChapters ==
    /\ (\E format \in ExportFormats : last.op = "export_" \o format) =>
          /\ (last.status = "ok") <=> (Kept # {})
          /\ last.status # "ok" =>
                last.status \in {"not_found", "rejected"} /\ last.rows = <<>>
          /\ last.status = "ok" =>
                /\ Len(last.rows) = Cardinality(Kept)
                /\ \A i \in Kept :
                      /\ last.rows[Rank(i)].chapter = Rank(i)
                      /\ last.rows[Rank(i)].title = chapters[i].current_title
                      /\ last.op # "export_cue" =>
                            last.rows[Rank(i)].timestamp = chapters[i].timestamp
    /\ (last.op = "submit" /\ last.status \in {"ok", "failed"}) =>
          /\ Len(last.upload) = Cardinality(Kept)
          /\ \A i \in Kept :
                /\ last.upload[Rank(i)].id = Rank(i)
                /\ last.upload[Rank(i)].title = chapters[i].current_title

SegmentLengths ==
    {3 * TicksPerSecond - 1, 3 * TicksPerSecond, 30 * TicksPerSecond,
     30 * TicksPerSecond + 1}
MinClipLengths ==
    {TicksPerSecond \div 2 - 1, TicksPerSecond \div 2, 5 * TicksPerSecond,
     5 * TicksPerSecond + 1}
AsrBuffers == {-1, 0, TicksPerSecond, TicksPerSecond + 1}
MinSilenceDurations ==
    {TicksPerSecond - 1, TicksPerSecond, 5 * TicksPerSecond,
     5 * TicksPerSecond + 1}

ConfigRequests ==
    [segment_length : SegmentLengths, min_clip_length : MinClipLengths,
     asr_buffer : AsrBuffers, min_silence_duration : MinSilenceDurations]

\* the validation without its cross-parameter check
validate_ranges_only(config) ==
    (IF ~(3 * TicksPerSecond <= config.segment_length
          /\ config.segment_length <= 30 * TicksPerSecond)
     THEN <<"segment_length">> ELSE <<>>)
    \o (IF ~(TicksPerSecond \div 2 <= config.min_clip_length
             /\ config.min_clip_length <= 5 * TicksPerSecond)
        THEN <<"min_clip_length">> ELSE <<>>)
    \o (IF ~(0 <= config.asr_buffer /\ config.asr_buffer <= TicksPerSecond)
        THEN <<"asr_buffer">> ELSE <<>>)
    \o (IF ~(TicksPerSecond <= config.min_silence_duration
             /\ config.min_silence_duration <= 5 * TicksPerSecond)
        THEN <<"min_silence_duration">> ELSE <<>>)

\* SmartDetectConfig.validate_constraints: the errors, in the order they
\* are appended
validate_constraints(config) ==
    (IF ~(3 * TicksPerSecond <= config.segment_length
          /\ config.segment_length <= 30 * TicksPerSecond)
     THEN <<"segment_length">> ELSE <<>>)
    \o (IF ~(TicksPerSecond \div 2 <= config.min_clip_length
             /\ config.min_clip_length <= 5 * TicksPerSecond)
        THEN <<"min_clip_length">> ELSE <<>>)
    \o (IF ~(0 <= config.asr_buffer /\ config.asr_buffer <= TicksPerSecond)
        THEN <<"asr_buffer">> ELSE <<>>)
    \o (IF ~(TicksPerSecond <= config.min_silence_duration
             /\ config.min_silence_duration <= 5 * TicksPerSecond)
        THEN <<"min_silence_duration">> ELSE <<>>)
    \o (IF config.segment_length < config.min_clip_length
        THEN <<"segment_shorter_than_clip">> ELSE <<>>)

\* PUT /pipeline/smart-detect-config with
\* ProcessingPipeline.update_smart_detect_config
update_smart_detect_config(request) ==
    LET errors == validate_constraints(request)
        answer(status, errs) ==
            [op |-> "update_smart_detect_config", status |-> status,
             request |-> request, errors |-> errs,
             before |-> smart_detect_config, step |-> step]
    IN  IF ~pipeline
        THEN /\ c_result' = answer("not_found", <<>>)
             /\ UNCHANGED smart_detect_config
        ELSE IF errors # <<>>
        THEN /\ c_result' = answer("rejected", errors)
             /\ UNCHANGED smart_detect_config
        ELSE /\ smart_detect_config' = request
             /\ c_result' = answer("ok", <<>>)

InitConfig ==
    /\ InitOpsIdle
    /\ InitPureIdle
    /\ InitConfigIdle
    /\ \/ InitPipeline
       \/ /\ pipeline = TRUE
          /\ step = "select_cue_source"
          /\ existing_cue_sources = Sources
          /\ chapters = <<>>
          /\ history_stack = <<>>
          /\ history_index = -1
          /\ cues = <<>>
          /\ segment_files = 0
          /\ trimmed_segment_files = 0
          /\ transcriptions = <<>>
          /\ transcribed_chapters = <<>>
          /\ cue_sets = EmptyDict
          /\ include_unaligned = <<>>
          /\ task = NoTask
          /\ ai = NoAI
          /\ last = Last("fetch", "ok")
          /\ trail = NoTrail
          /\ observed = Quiet("select_cue_source", NoProgress)
          /\ requests = 0

NextConfig ==
    /\ \E request \in ConfigRequests : update_smart_detect_config(request)
    /\ UNCHANGED <<vars_pipeline, requests, vars_ops, vars_pure>>

SpecConfig == InitConfig /\ [][NextConfig]_vars

\* a configuration within all four ranges whose segment is no shorter than
\* its shortest clip
WithinLimits(config) ==
    /\ config.segment_length \in (3 * TicksPerSecond)..(30 * TicksPerSecond)
    /\ config.min_clip_length \in (TicksPerSecond \div 2)..(5 * TicksPerSecond)
    /\ config.asr_buffer \in 0..TicksPerSecond
    /\ config.min_silence_duration \in TicksPerSecond..(5 * TicksPerSecond)
    /\ config.segment_length >= config.min_clip_length

\* C25: a smart-detect configuration update is accepted only if
\* segment_length is in [3, 30], min_clip_length in [0.5, 5], asr_buffer in
\* [0, 1], min_silence_duration in [1, 5] and segment_length >=
\* min_clip_length; a rejected update is reported to the caller with its
\* violations and leaves the configuration and the step unchanged.
C25_ConfigUpdateValidated ==
    c_result.op = "update_smart_detect_config" =>
        /\ c_result.status = "ok" =>
              /\ WithinLimits(c_result.request)
              /\ smart_detect_config = c_result.request
        /\ (pipeline /\ ~WithinLimits(c_result.request)) =>
              /\ c_result.status = "rejected"
              /\ c_result.errors # <<>>
              /\ smart_detect_config = c_result.before
              /\ step = c_result.step
        /\ smart_detect_config # c_result.before => c_result.status = "ok"

\* an update within every range was rejected for its segment being shorter
\* than its shortest clip, after an earlier update had been accepted
C25_Witness ==
    /\ c_result.status = "rejected"
    /\ c_result.errors = <<"segment_shorter_than_clip">>
    /\ smart_detect_config # DefaultSmartDetectConfig

\* C26: step transitions are serialized: of two identical requests that
\* arrive back-to-back before the first has changed the step, the second is
\* rejected, so that no second step-advancing task is accepted behind one
\* that has not begun, and chapters are never minted twice from the same
\* cues.
C26_StepTransitionsSerialized ==
    /\ task.arg.queued = 0
    /\ (last.op = "skip_transcription" /\ last.status = "ok") =>
          Len(transcribed_chapters) = Len(cues)

\* the events of the last step hold a step_change to SELECT_CUE_SOURCE
AnnouncesSelectCueSource ==
    \E i \in 1..Len(observed.events) :
        observed.events[i] = StepChange("select_cue_source")

\* C27: after a cancel while the pipeline is validating or downloading, no
\* step_change to SELECT_CUE_SOURCE is broadcast and the deleted pipeline
\* never becomes observable in SELECT_CUE_SOURCE: the background fetch task
\* announces SELECT_CUE_SOURCE only when the fetch succeeded.
C27_NoAnnouncementAfterCancel ==
    /\ ~pipeline => ~AnnouncesSelectCueSource
    /\ (last.op \in {"fetch", "orphan_fetch"} /\ AnnouncesSelectCueSource) =>
          last.status \in {"ok", "concat_failed"}

\* C28: the pipeline enters COMPLETED only by a submit whose upload
\* succeeded; a submit issued outside CHAPTER_EDITING and REVIEWING is
\* rejected and does not change the step; a submit whose upload fails leaves
\* the pipeline in REVIEWING with chapters and history unchanged.
C28_CompletedOnlyAfterUpload ==
    [][/\ (step' = "completed" /\ step # "completed") =>
             last'.op = "submit" /\ last'.status = "ok"
       /\ ((\E success \in BOOLEAN : submit_chapters(success))
            /\ step \notin {"chapter_editing", "reviewing"}) =>
             last'.status = "rejected" /\ UNCHANGED step
       /\ (last'.op = "submit" /\ last'.status = "failed") =>
             /\ step' = "reviewing"
             /\ UNCHANGED <<chapters, history_stack, history_index>>]_vars

\* an upload failed for a list of chapters with a recorded edit
C28_Witness ==
    /\ last.op = "submit" /\ last.status = "failed"
    /\ step = "reviewing"
    /\ chapters # <<>>
    /\ history_index >= 0

\* C29: restart_at_step(L) leaves unchanged all data at or below level L:
\* a restart at CHAPTER_EDITING keeps chapters, history and transcriptions;
\* at CONFIGURE_ASR or above it keeps the selected cues, the segment files
\* and the cue sets; at CUE_SET_SELECTION or above the cue sets; at
\* SELECT_CUE_SOURCE or above the pipeline with its book and the existing
\* cue sources.
C29_RestartKeepsLevelData ==
    [][last'.level \in RestartSteps \ {"idle"} =>
        /\ ordinal(last'.level) >= ordinal("chapter_editing") =>
              UNCHANGED <<chapters, history_stack, history_index,
                          transcriptions>>
        /\ ordinal(last'.level) >= ordinal("configure_asr") =>
              UNCHANGED <<cues, segment_files>>
        /\ ordinal(last'.level) >= ordinal("cue_set_selection") =>
              UNCHANGED cue_sets
        /\ ordinal(last'.level) >= ordinal("select_cue_source") =>
              UNCHANGED <<pipeline, existing_cue_sources>>]_vars

\* C30: after an AI clean-up has finished, with success or with a failure,
\* the step of the pipeline is CHAPTER_EDITING again; it is never left at
\* AI_CLEANUP.
C30_CleanupEndsInChapterEditing ==
    (/\ last.op \in {"ai_cleanup", "ai_cleanup_done"}
     /\ last.status \in {"ok", "failed"}) =>
        step = "chapter_editing"

\* ------------------------------------------------------ the cue clusterer
\* SmartDetectionService and VadDetectionService carry the same
\* generate_cue_set, _filter_consecutive_counts and get_clustered_cue_sets.
\* A silence is <<start, end>> in ticks; a cue set dictionary is a function
\* from the lengths it holds to the cue lists.

\* the most silences a scan reports in the model
MaxSpans == 3
\* the largest chapter count handed to the post-filter in the model
MaxCount == 5

\* a book shorter than one segment, and the 1000 s book of the scenarios
BookLengths == {6 * TicksPerSecond, 1000 * TicksPerSecond}

\* the default configuration, and one whose clips are long (5 s) and whose
\* silences may be short (1 s)
ClusterConfigs ==
    {DefaultSmartDetectConfig,
     [segment_length |-> 8 * TicksPerSecond,
      min_clip_length |-> 5 * TicksPerSecond,
      asr_buffer |-> Quarter, min_silence_duration |-> TicksPerSecond]}

\* silences at the start of a book, pairs that end less than 5 s apart,
\* silences within one segment of the end of the long book, and silences
\* inside the short book
SpanPool ==
    {<<8, 20>>, <<10, 38>>, <<30, 46>>, <<80, 104>>, <<106, 120>>,
     <<4000, 4016>>, <<4018, 4034>>, <<7920, 7950>>, <<7960, 7992>>}

\* SilenceSpan[]: sorted, non-overlapping, inside the book, none shorter
\* than min_silence_duration
IsSilenceList(silences, book_length, config) ==
    /\ \A i \in 1..Len(silences) :
          /\ silences[i] \in SpanPool
          /\ silences[i][2] <= book_length
          /\ silences[i][2] - silences[i][1] >= config.min_silence_duration
    /\ \A i \in 1..(Len(silences) - 1) : silences[i][2] <= silences[i + 1][1]

SilenceLists(book_length, config) ==
    {silences \in UNION {[1..n -> SpanPool] : n \in 0..MaxSpans} :
        IsSilenceList(silences, book_length, config)}

\* KMeans(n_clusters = k, random_state = 1337, n_init = 10).fit(durations),
\* read through cluster_ranks: ranks[i] is the place of the cluster of
\* silence i when the clusters are ordered by falling centre.  The library is
\* not part of the program; the model admits every labelling a k-means fit
\* of points on a line can end in: a longer silence never lies in a cluster
\* of smaller centre, equal durations share a cluster, and no cluster is
\* empty when there are k distinct durations.
Fits(silences, k) ==
    LET n == Len(silences)
        duration(i) == silences[i][2] - silences[i][1]
        distinct == Cardinality({duration(i) : i \in 1..n})
    IN  {ranks \in [1..n -> 1..k] :
            /\ \A i, j \in 1..n :
                  /\ duration(i) > duration(j) => ranks[i] <= ranks[j]
                  /\ duration(i) = duration(j) => ranks[i] = ranks[j]
            /\ distinct >= k => \A r \in 1..k : \E i \in 1..n : ranks[i] = r}

\* generate_cue_set, the loop over the silences of the top_n clusters: the
\* cue of a silence is passed over when a kept cue is closer than
\* min_clip_length
RECURSIVE select_cues(_, _, _, _, _, _)
select_cues(silences, config, ranks, top_n, idx, cue_set) ==
    IF idx > Len(silences) THEN cue_set
    ELSE LET new_cue == silences[idx][2] - config.asr_buffer
             too_close ==
                 \E j \in 1..Len(cue_set) :
                     Abs(new_cue - cue_set[j]) < config.min_clip_length
         IN  select_cues(silences, config, ranks, top_n, idx + 1,
                         IF ranks[idx] <= top_n /\ ~too_close
                         THEN Append(cue_set, new_cue) ELSE cue_set)

\* generate_cue_set, one pass of the loop over top_n: sort, snap the first
\* cue to 0 or put 0 in front, drop the last cue when it lies in the last
\* segment_length of the book
cue_set_of(silences, book_length, config, ranks, top_n) ==
    LET sorted == Sorted(select_cues(silences, config, ranks, top_n, 1, <<>>))
        from_zero ==
            IF sorted # <<>>
               /\ sorted[1] <= config.segment_length + config.min_clip_length
            THEN [sorted EXCEPT ![1] = 0]
            ELSE <<0>> \o sorted
    IN  IF from_zero # <<>>
           /\ from_zero[Len(from_zero)] > book_length - config.segment_length
        THEN SubSeq(from_zero, 1, Len(from_zero) - 1)
        ELSE from_zero

\* generate_cue_set, cue_sets[len(cue_set)] = cue_set for top_n = 1 .. k - 1
RECURSIVE record_cue_sets(_, _, _, _, _, _, _)
record_cue_sets(silences, book_length, config, ranks, k_clusters, top_n, dict) ==
    IF top_n > k_clusters - 1 THEN dict
    ELSE LET cue_set == cue_set_of(silences, book_length, config, ranks, top_n)
         IN  record_cue_sets(silences, book_length, config, ranks, k_clusters,
                             top_n + 1, (Len(cue_set) :> cue_set) @@ dict)

\* generate_cue_set: nothing without silences or with fewer than two
\* clusters, and nothing when KMeans raises (more clusters than samples)
generate_cue_set(silences, book_length, config, k_clusters, ranks) ==
    IF silences = <<>> \/ k_clusters < 2 \/ k_clusters > Len(silences)
    THEN EmptyDict
    ELSE record_cue_sets(silences, book_length, config, ranks, k_clusters, 1,
                         EmptyDict)

\* _filter_consecutive_counts: the index of the last count of the run of
\* consecutive counts that starts at i
RECURSIVE group_end(_, _)
group_end(chapter_counts, i) ==
    IF i + 1 <= Len(chapter_counts)
       /\ chapter_counts[i + 1] = chapter_counts[i] + 1
    THEN group_end(chapter_counts, i + 1)
    ELSE i

\* _filter_consecutive_counts, the loop over the runs
RECURSIVE filter_groups(_, _, _)
filter_groups(chapter_counts, i, filtered_counts) ==
    IF i > Len(chapter_counts) THEN filtered_counts
    ELSE LET group_start == i
             group_last == group_end(chapter_counts, i)
             group_size == group_last - group_start + 1
             kept ==
                 IF group_size = 1 THEN <<chapter_counts[group_start]>>
                 ELSE IF group_size = 2 THEN <<chapter_counts[group_last]>>
                 ELSE <<chapter_counts[group_start]>>
                      \o (IF chapter_counts[group_start] # chapter_counts[group_last]
                          THEN <<chapter_counts[group_last]>> ELSE <<>>)
         IN  filter_groups(chapter_counts, group_last + 1, filtered_counts \o kept)

filter_consecutive_counts(chapter_counts) ==
    IF Len(chapter_counts) <= 1 THEN chapter_counts
    ELSE Sorted(filter_groups(chapter_counts, 1, <<>>))

\* the members of a set of numbers in ascending order
RECURSIVE Ascending(_)
Ascending(S) ==
    IF S = {} THEN <<>> ELSE <<Min(S)>> \o Ascending(S \ {Min(S)})

\* get_clustered_cue_sets, all_clusters.update(cue_set) for
\* k = 2 .. min(15, len(silences)); fits[k] is the fit of the call with k
RECURSIVE all_clusters(_, _, _, _, _, _)
all_clusters(silences, book_length, config, fits, k_clusters, dict) ==
    IF k_clusters > Min({15, Len(silences)}) THEN dict
    ELSE all_clusters(silences, book_length, config, fits, k_clusters + 1,
                      generate_cue_set(silences, book_length, config,
                                       k_clusters, fits[k_clusters])
                      @@ dict)

get_clustered_cue_sets(silences, book_length, config, fits) ==
    LET clusters == all_clusters(silences, book_length, config, fits, 2,
                                 EmptyDict)
        chapter_counts == Ascending(DOMAIN clusters)
        filtered_counts == filter_consecutive_counts(chapter_counts)
    IN  [count \in {filtered_counts[i] : i \in 1..Len(filtered_counts)} |->
            clusters[count]]

\* one fit for every k the clusterer asks for
RECURSIVE FitsUpTo(_, _)
FitsUpTo(silences, k) ==
    IF k < 2 THEN {EmptyDict}
    ELSE {(k :> ranks) @@ fits :
             fits \in FitsUpTo(silences, k - 1), ranks \in Fits(silences, k)}

\* ascending lists of distinct chapter counts
CountLists == {Ascending(S) : S \in SUBSET (1..MaxCount)}

ClusterInputs ==
    {[op |-> "cluster", silences |-> silences, book_length |-> book_length,
      config |-> config] :
        <<book_length, config, silences>> \in
            UNION {{<<b, c, s>> : s \in SilenceLists(b, c)} :
                      b \in BookLengths, c \in ClusterConfigs}}

InitCluster ==
    /\ InitPipeline
    /\ InitOpsIdle
    /\ InitConfigIdle
    /\ p_in \in ClusterInputs
    /\ p_out = NoCall

\* one call of generate_cue_set on the scan
CallGenerateCueSet(k_clusters, ranks) ==
    /\ p_in.op = "cluster"
    /\ p_out' = [op |-> "generate_cue_set", k_clusters |-> k_clusters,
                 result |-> generate_cue_set(p_in.silences, p_in.book_length,
                                             p_in.config, k_clusters, ranks)]
    /\ UNCHANGED p_in

\* one call of get_clustered_cue_sets on the scan
CallGetClusteredCueSets(fits) ==
    /\ p_in.op = "cluster"
    /\ p_out' = [op |-> "get_clustered_cue_sets",
                 result |-> get_clustered_cue_sets(p_in.silences,
                                                   p_in.book_length,
                                                   p_in.config, fits)]
    /\ UNCHANGED p_in

\* one call of _filter_consecutive_counts
CallFilterConsecutiveCounts(chapter_counts) ==
    /\ p_in.op = "cluster"
    /\ p_out' = [op |-> "filter_consecutive_counts",
                 chapter_counts |-> chapter_counts,
                 result |-> filter_consecutive_counts(chapter_counts)]
    /\ UNCHANGED p_in

NextCluster ==
    /\ \/ \E k_clusters \in 2..Len(p_in.silences) :
             \E ranks \in Fits(p_in.silences, k_clusters) :
                 CallGenerateCueSet(k_clusters, ranks)
       \/ \E fits \in FitsUpTo(p_in.silences, Min({15, Len(p_in.silences)})) :
             CallGetClusteredCueSets(fits)
       \/ \E chapter_counts \in CountLists :
             CallFilterConsecutiveCounts(chapter_counts)
    /\ UNCHANGED <<vars_pipeline, requests, vars_ops, vars_config>>

SpecCluster == InitCluster /\ [][NextCluster]_vars

\* a result of the clusterer: the dictionary of one generate_cue_set call or
\* of get_clustered_cue_sets
Clustered == p_out.op \in {"generate_cue_set", "get_clustered_cue_sets"}

Elements(seq) == {seq[i] : i \in 1..Len(seq)}

\* C31: every cue list the clusterer produces is sorted ascending, starts
\* with timestamp 0, holds no two cues closer to each other than
\* min_clip_length, and is recorded under the key equal to its length.
C31_CueListsWellFormed ==
    Clustered =>
        \A count \in DOMAIN p_out.result :
            LET cue_set == p_out.result[count]
            IN  /\ Len(cue_set) = count
                /\ cue_set # <<>> /\ cue_set[1] = 0
                /\ \A i, j \in 1..Len(cue_set) :
                      i < j =>
                         /\ cue_set[i] <= cue_set[j]
                         /\ cue_set[j] - cue_set[i] >= p_in.config.min_clip_length

\* C32: whenever at least one silence is detected the clusterer returns at
\* least one cue set; for the single silence (10 s, 13 s) with the default
\* configuration and a book of 1000 s it returns exactly {2: [0, 12.75 s]}.
C32_SingleSpanGivesTwoCues ==
    (p_out.op = "get_clustered_cue_sets" /\ p_in.silences # <<>>) =>
        /\ p_out.result # EmptyDict
        /\ (/\ p_in.silences = <<<<10 * TicksPerSecond, 13 * TicksPerSecond>>>>
            /\ p_in.config = DefaultSmartDetectConfig
            /\ p_in.book_length = 1000 * TicksPerSecond) =>
               p_out.result = (2 :> <<0, 13 * TicksPerSecond - Quarter>>)

\* C33: the post-filter returns a subset of the ascending list of distinct
\* counts it is given, and the result still holds the smallest and the
\* largest count of the input.
C33_FilterKeepsExtremes ==
    (p_out.op = "filter_consecutive_counts" /\ p_out.chapter_counts # <<>>) =>
        /\ Elements(p_out.result) \subseteq Elements(p_out.chapter_counts)
        /\ p_out.chapter_counts[1] \in Elements(p_out.result)
        /\ p_out.chapter_counts[Len(p_out.chapter_counts)]
              \in Elements(p_out.result)

\* C34: every cue of every cue set offered to the user is at most
\* duration - segment_length.
C34_CuesLeaveOneSegment ==
    p_out.op = "get_clustered_cue_sets" =>
        \A count \in DOMAIN p_out.result :
            \A cue \in Elements(p_out.result[count]) :
                cue <= p_in.book_length - p_in.config.segment_length

\* ------------------------------------------------------- the VAD scanner
\* A chunk is what a worker gets from the VAD model for one chunk file: the
\* speech intervals <<start, end>> relative to the chunk, and the length of
\* the loaded audio.  A gap is <<start, end>> on the timeline of the book.

\* VadDetectionService.segment_duration, 600 s
segment_duration == 600 * TicksPerSecond

\* the most chunks a book is split into in the model
MaxChunks == 2
\* the largest chunk count and worker limit the batching is asked for
MaxChunkCount == 6
MaxProcesses == 4

\* one second in ticks: the separation up to which two gaps are coalesced
MergeDistance == TicksPerSecond

\* no speech, speech throughout, two silences 0.5 s of speech apart, two
\* silences 2 s of speech apart, and silences of 2 s and of 1.25 s at either
\* end of the chunk
SpeechPool ==
    {<<>>,
     <<<<0, segment_duration>>>>,
     <<<<0, 2000>>, <<2024, 2028>>, <<2052, segment_duration>>>>,
     <<<<0, 2000>>, <<2024, 2040>>, <<2064, segment_duration>>>>,
     <<<<0, segment_duration - 2 * TicksPerSecond>>>>,
     <<<<2 * TicksPerSecond, segment_duration>>>>,
     <<<<0, segment_duration - 10>>>>,
     <<<<10, segment_duration>>>>}

\* a chunk file holds the nominal length of audio or one second more
Chunks ==
    [speech_timestamps : SpeechPool,
     chunk_duration : {segment_duration, segment_duration + TicksPerSecond}]

\* vad_worker.find_gaps_in_speech, the gaps between consecutive speech
\* intervals
RECURSIVE gaps_between(_, _, _, _, _)
gaps_between(speech, segment_start, min_silence_duration, i, gaps) ==
    IF i > Len(speech) - 1 THEN gaps
    ELSE LET current_end == speech[i][2] + segment_start
             next_start == speech[i + 1][1] + segment_start
         IN  gaps_between(speech, segment_start, min_silence_duration, i + 1,
                          IF next_start - current_end >= min_silence_duration
                          THEN Append(gaps, <<current_end, next_start>>)
                          ELSE gaps)

\* vad_worker.find_gaps_in_speech
find_gaps_in_speech(speech_timestamps, segment_start, segment_end, min_silence_duration) ==
    IF speech_timestamps = <<>>
    THEN IF segment_end - segment_start >= min_silence_duration
         THEN <<<<segment_start, segment_end>>>> ELSE <<>>
    ELSE LET speech == SortSeq(speech_timestamps,
                               LAMBDA a, b : a[1] < b[1])
             first_speech_start == speech[1][1] + segment_start
             last_speech_end == speech[Len(speech)][2] + segment_start
             leading ==
                 IF first_speech_start - segment_start >= min_silence_duration
                 THEN <<<<segment_start, first_speech_start>>>> ELSE <<>>
             trailing ==
                 IF segment_end - last_speech_end >= min_silence_duration
                 THEN <<<<last_speech_end, segment_end>>>> ELSE <<>>
         IN  gaps_between(speech, segment_start, min_silence_duration, 1,
                          leading)
             \o trailing

\* vad_worker.process_multiple_chunks for the chunk with this index:
\* start_time = chunk_index * segment_duration, end_time = start_time +
\* len(wav) / sr
chunk_gaps(chunks, chunk_index, min_silence_duration) ==
    LET start_time == chunk_index * segment_duration
    IN  find_gaps_in_speech(chunks[chunk_index + 1].speech_timestamps,
                            start_time,
                            start_time + chunks[chunk_index + 1].chunk_duration,
                            min_silence_duration)

\* _process_audio_chunks_async, all_gaps.extend(gaps) over the results in
\* chunk order
RECURSIVE all_gaps_of(_, _, _)
all_gaps_of(chunks, chunk_index, min_silence_duration) ==
    IF chunk_index >= Len(chunks) THEN <<>>
    ELSE chunk_gaps(chunks, chunk_index, min_silence_duration)
         \o all_gaps_of(chunks, chunk_index + 1, min_silence_duration)

\* the merger without its coalescing: every sorted gap is kept apart
RECURSIVE merge_keeping_apart(_, _, _)
merge_keeping_apart(sorted_gaps, i, merged_gaps) ==
    IF i > Len(sorted_gaps) THEN merged_gaps
    ELSE merge_keeping_apart(sorted_gaps, i + 1,
                             Append(merged_gaps, sorted_gaps[i]))

\* _merge_overlapping_gaps, the loop over sorted_gaps[1:]
RECURSIVE merge_sorted(_, _, _)
merge_sorted(sorted_gaps, i, merged_gaps) ==
    IF i > Len(sorted_gaps) THEN merged_gaps
    ELSE LET current_gap == sorted_gaps[i]
             last_gap == merged_gaps[Len(merged_gaps)]
         IN  merge_sorted(
                 sorted_gaps, i + 1,
                 IF current_gap[1] <= last_gap[2] + MergeDistance
                 THEN [merged_gaps EXCEPT ![Len(merged_gaps)] =
                          <<last_gap[1],
                            IF last_gap[2] >= current_gap[2]
                            THEN last_gap[2] ELSE current_gap[2]>>]
                 ELSE Append(merged_gaps, current_gap))

\* VadDetectionService._merge_overlapping_gaps
merge_overlapping_gaps(all_gaps, min_silence_duration) ==
    IF all_gaps = <<>> THEN <<>>
    ELSE LET sorted_gaps == SortSeq(all_gaps, LAMBDA a, b : a[1] < b[1])
             merged_gaps == merge_sorted(sorted_gaps, 2, <<sorted_gaps[1]>>)
         IN  SelectSeq(merged_gaps,
                       LAMBDA gap : gap[2] - gap[1] >= min_silence_duration)

\* the batching whose chunks_per_worker is not rounded up
worker_batches_rounding_down(total_chunks, max_processes) ==
    LET quotient == total_chunks \div max_processes
        chunks_per_worker == IF quotient >= 1 THEN quotient ELSE 1
        batch(worker_id) ==
            LET start_idx == worker_id * chunks_per_worker
                end_idx == Min({start_idx + chunks_per_worker, total_chunks})
            IN  [k \in 1..(end_idx - start_idx) |-> start_idx + k - 1]
        started == {w \in 0..(max_processes - 1) :
                       w * chunks_per_worker < total_chunks}
    IN  [w \in 1..Cardinality(started) |-> batch(w - 1)]

\* _process_audio_chunks_async, worker_batches: the chunk indices of every
\* batch, in the order the batches are created
worker_batches(total_chunks, max_processes) ==
    LET quotient == total_chunks \div max_processes
        chunks_per_worker ==
            (IF quotient >= 1 THEN quotient ELSE 1)
            + (IF total_chunks % max_processes # 0 THEN 1 ELSE 0)
        batch(worker_id) ==
            LET start_idx == worker_id * chunks_per_worker
                end_idx == Min({start_idx + chunks_per_worker, total_chunks})
            IN  [k \in 1..(end_idx - start_idx) |-> start_idx + k - 1]
        started == {w \in 0..(max_processes - 1) :
                       w * chunks_per_worker < total_chunks}
    IN  [w \in 1..Cardinality(started) |-> batch(w - 1)]

VadInputs ==
    [op : {"vad"},
     chunks : UNION {[1..n -> Chunks] : n \in 1..MaxChunks},
     min_silence_duration : {TicksPerSecond, 2 * TicksPerSecond}]

\* the most gaps in a list handed to the merger directly
MaxGaps == 3

\* gaps shorter than a second, touching, nested, 5 ticks apart, and far apart
GapPool ==
    {<<0, 4>>, <<2, 20>>, <<20, 40>>, <<30, 36>>, <<45, 70>>, <<100, 120>>}

\* a collection of gaps in any order, as _merge_overlapping_gaps accepts it
GapInputs ==
    [op : {"gaps"},
     all_gaps : UNION {[1..n -> GapPool] : n \in 0..MaxGaps},
     min_silence_duration : {TicksPerSecond, 2 * TicksPerSecond}]

InitVad ==
    /\ InitPipeline
    /\ InitOpsIdle
    /\ InitConfigIdle
    /\ p_in \in VadInputs \cup GapInputs
    /\ p_out = NoCall

\* one worker turns the speech of one chunk into gaps
CallFindGaps(chunk_index) ==
    /\ p_in.op = "vad"
    /\ p_out' = [op |-> "find_gaps_in_speech", chunk_index |-> chunk_index,
                 result |-> chunk_gaps(p_in.chunks, chunk_index,
                                       p_in.min_silence_duration)]
    /\ UNCHANGED p_in

\* the parent merges the gaps of all chunks, or the gaps it is handed
CallMergeOverlappingGaps ==
    LET all_gaps ==
            IF p_in.op = "gaps" THEN p_in.all_gaps
            ELSE all_gaps_of(p_in.chunks, 0, p_in.min_silence_duration)
    IN  /\ p_in.op \in {"vad", "gaps"}
        /\ p_out' = [op |-> "merge_overlapping_gaps", all_gaps |-> all_gaps,
                     result |-> merge_overlapping_gaps(
                                    all_gaps, p_in.min_silence_duration)]
        /\ UNCHANGED p_in

\* the parent splits the chunks among its workers
CallWorkerBatches(total_chunks, max_processes) ==
    /\ p_in.op \in {"vad", "gaps"}
    /\ p_out' = [op |-> "worker_batches", total_chunks |-> total_chunks,
                 max_processes |-> max_processes,
                 result |-> worker_batches(total_chunks, max_processes)]
    /\ UNCHANGED p_in

NextVad ==
    /\ \/ /\ p_in.op = "vad"
          /\ \E chunk_index \in 0..(Len(p_in.chunks) - 1) :
                CallFindGaps(chunk_index)
       \/ CallMergeOverlappingGaps
       \/ \E total_chunks \in 1..MaxChunkCount, max_processes \in 1..MaxProcesses :
             CallWorkerBatches(total_chunks, max_processes)
    /\ UNCHANGED <<vars_pipeline, requests, vars_ops, vars_config>>

SpecVad == InitVad /\ [][NextVad]_vars

\* the ticks a list of gaps covers
Covered(gaps) ==
    UNION {gaps[i][1]..(gaps[i][2] - 1) : i \in 1..Len(gaps)}

\* C35: after merging, the reported silences cover exactly the raw
\* per-chunk gaps: no time point outside every raw gap is reported as
\* silent, and no point of a raw gap of at least min_silence_duration is
\* dropped.
C35_MergedUnionIsRawUnion ==
    p_out.op = "merge_overlapping_gaps" =>
        /\ Covered(p_out.result) \subseteq Covered(p_out.all_gaps)
        /\ \A i \in 1..Len(p_out.all_gaps) :
              p_out.all_gaps[i][2] - p_out.all_gaps[i][1]
                 >= p_in.min_silence_duration =>
                    p_out.all_gaps[i][1]..(p_out.all_gaps[i][2] - 1)
                       \subseteq Covered(p_out.result)

\* C36: the silence list the merger returns is sorted by start time, no two
\* of its silences overlap, and every one of them is at least
\* min_silence_duration long.
C36_MergedSilencesDisjoint ==
    p_out.op = "merge_overlapping_gaps" =>
        /\ \A i, j \in 1..Len(p_out.result) :
              i < j => /\ p_out.result[i][1] <= p_out.result[j][1]
                       /\ p_out.result[i][2] <= p_out.result[j][1]
        /\ \A i \in 1..Len(p_out.result) :
              p_out.result[i][2] - p_out.result[i][1]
                 >= p_in.min_silence_duration

\* the merger was handed raw gaps that overlap and returned several silences
C36_Witness ==
    /\ p_out.op = "merge_overlapping_gaps"
    /\ Len(p_out.result) >= 2
    /\ \E i, j \in 1..Len(p_out.all_gaps) :
          /\ i < j
          /\ p_out.all_gaps[j][1] < p_out.all_gaps[i][2]

\* C37: every chunk index 0 .. N - 1 lies in exactly one worker batch, every
\* batch is a contiguous ascending range of chunk indices, no batch is
\* empty, and there are at most W batches.
C37_BatchesPartitionChunks ==
    p_out.op = "worker_batches" =>
        LET batches == p_out.result
        IN  /\ Len(batches) <= p_out.max_processes
            /\ \A b \in 1..Len(batches) :
                  /\ batches[b] # <<>>
                  /\ \A k \in 1..(Len(batches[b]) - 1) :
                        batches[b][k + 1] = batches[b][k] + 1
            /\ \A chunk_idx \in 0..(p_out.total_chunks - 1) :
                  Cardinality({<<b, k>> \in (1..Len(batches)) \X (1..MaxChunkCount + 1) :
                                  /\ k <= Len(batches[b])
                                  /\ batches[b][k] = chunk_idx}) = 1
            /\ \A b \in 1..Len(batches) :
                  \A k \in 1..Len(batches[b]) :
                      batches[b][k] \in 0..(p_out.total_chunks - 1)

\* more chunks than workers, and not a multiple of the worker limit
C37_Witness ==
    /\ p_out.op = "worker_batches"
    /\ p_out.total_chunks > p_out.max_processes
    /\ p_out.total_chunks % p_out.max_processes # 0
    /\ Len(p_out.result) >= 2

\* ---------------------------------------------------------------------
\* the chapter aligner (chapter_aligner.py)
\*
\* Times are whole multiples of 30 s, silence durations whole multiples of
\* 1.5 s, costs hundredths.  A value the code computes as a float is kept
\* as an exact fraction [num, den] with den > 0; only the 1.5th power of
\* the match cost is rounded (down, to a hundredth).
\* ---------------------------------------------------------------------

max_drift == 4

anchor_window == 4

no_match_cost == 5000

drift_penalty == 100000

INF == 1000000000

MaxSource == 3

MaxCues == 3

SourceTimePool == {0, 1, 3, 10, 20}

CueTimePool == {0, 1, 3, 10, 20, 22}

SilencePool == {0, 2, 3}

TitleOf(i) == <<"A", "B", "C", "D">>[i]

DurationPairs == {<<20, 20>>, <<20, 22>>, <<0, 20>>}

RECURSIVE SumF(_, _)
SumF(f, S) ==
    IF S = {} THEN 0
    ELSE LET x == CHOOSE x \in S : TRUE
         IN f[x] + SumF(f, S \ {x})

RECURSIVE isqrt_between(_, _, _)
isqrt_between(n, lo, hi) ==
    IF lo >= hi THEN lo
    ELSE LET mid == (lo + hi + 1) \div 2
         IN IF mid * mid <= n THEN isqrt_between(n, mid, hi)
            ELSE isqrt_between(n, lo, mid - 1)

isqrt(n) == isqrt_between(n, 0, 46340)

\* total_duration_actual / total_duration_source, 1.0 without a source
\* duration
duration_ratio(total_duration_source, total_duration_actual) ==
    IF total_duration_source > 0
    THEN [scale |-> total_duration_actual, offset |-> 0,
          den |-> total_duration_source]
    ELSE [scale |-> 1, offset |-> 0, den |-> 1]

\* src_t * scale + offset as a fraction
expected_time(src_t, transform) ==
    [num |-> src_t * transform.scale + transform.offset,
     den |-> transform.den]

\* ten times combined_scores of one nearby cue: 0.6 * min(silence / 3, 1)
\* + 0.4 * max(0, 1 - diff / 60)
combined_score(silence, diff) ==
    3 * (IF silence < 2 THEN silence ELSE 2)
    + (IF 4 - 2 * diff > 0 THEN 4 - 2 * diff ELSE 0)

\* the anchor of one source chapter: the nearby cue of the highest
\* combined score, the first one among equals (np.argmax)
anchor_of(src_t, cue_times, cue_silences, base) ==
    LET expected_t == (src_t * base.scale) \div base.den
        diff(j) == Abs(cue_times[j] - expected_t)
        nearby == {j \in 1..Len(cue_times) : diff(j) < anchor_window}
        score(j) == combined_score(cue_silences[j], diff(j))
        best == CHOOSE j \in nearby :
                    \A k \in nearby :
                        \/ score(j) > score(k)
                        \/ score(j) = score(k) /\ j <= k
    IN IF nearby = {} THEN [found |-> FALSE, x |-> src_t, y |-> 0, w |-> 0]
       ELSE [found |-> TRUE, x |-> src_t, y |-> cue_times[best],
             w |-> score(best)]

estimate_transform(src_times, cue_times, cue_silences, total_duration_source, total_duration_actual) ==
    LET base == duration_ratio(total_duration_source, total_duration_actual)
        anchor == [i \in 1..Len(src_times) |->
                      anchor_of(src_times[i], cue_times, cue_silences, base)]
        candidates == {i \in 1..Len(src_times) : anchor[i].found}
        Sw   == SumF([i \in candidates |-> anchor[i].w], candidates)
        Swx  == SumF([i \in candidates |-> anchor[i].w * anchor[i].x],
                     candidates)
        Swy  == SumF([i \in candidates |-> anchor[i].w * anchor[i].y],
                     candidates)
        Swxx == SumF([i \in candidates |->
                         anchor[i].w * anchor[i].x * anchor[i].x], candidates)
        Swxy == SumF([i \in candidates |->
                         anchor[i].w * anchor[i].x * anchor[i].y], candidates)
        det        == Swxx * Sw - Swx * Swx
        scale_num  == Swxy * Sw - Swx * Swy
        offset_num == Swxx * Swy - Swx * Swxy
        in_range   == 9 * det <= 10 * scale_num /\ 10 * scale_num <= 11 * det
        ranged     == IF in_range
                      THEN [scale |-> scale_num, offset |-> offset_num,
                            den |-> det]
                      ELSE base
    IN IF Cardinality(candidates) < 2 THEN base
       ELSE IF det = 0 THEN base
       ELSE IF Abs(ranged.offset) > 10 * ranged.den
            THEN [ranged EXCEPT !.offset = 0]
            ELSE ranged

\* the cost of matching without its drift penalty
match_cost_within(expected_t, cue_t, silence) ==
    LET diff_num == Abs(expected_t.num - cue_t * expected_t.den)
        whole == diff_num \div expected_t.den
        rest  == diff_num % expected_t.den
        half_diff == 1500 * whole + (1500 * rest) \div expected_t.den
        time_penalty == (half_diff * isqrt(half_diff * 10000)) \div 1000
        silence_reward == IF 1125 * silence < 2500 THEN 1125 * silence
                          ELSE 2500
    IN time_penalty - silence_reward

drifted(expected_t, cue_t) ==
    Abs(expected_t.num - cue_t * expected_t.den) > max_drift * expected_t.den

calculate_match_cost(expected_t, cue_t, silence) ==
    match_cost_within(expected_t, cue_t, silence)
    + (IF drifted(expected_t, cue_t) THEN drift_penalty ELSE 0)

NoTrace == <<-1, -1, -1>>

plus(a, b) == IF a = INF THEN INF ELSE a + b

\* the table before the chapter rows are filled
dp_start(n_chapters, n_cues) ==
    [dp |-> [c \in (0..n_chapters) \X (0..n_cues) |->
                IF c[1] = 0 THEN 0 ELSE INF],
     traceback |-> [c \in (0..n_chapters) \X (0..n_cues) |->
                IF c[1] # 0 THEN NoTrace
                ELSE IF c[2] = 0 THEN <<0, 0, -1>>
                ELSE <<0, c[2] - 1, -1>>]]

\* a cell that a chapter can only leave by a match or by skipping a cue
dp_cell_always_matching(t, i, j, match_cost) ==
    LET matching == plus(t.dp[<<i - 1, j - 1>>], match_cost)
        matched == IF matching < t.dp[<<i, j>>]
                   THEN [dp |-> matching, traceback |-> <<i - 1, j - 1, j - 1>>]
                   ELSE [dp |-> t.dp[<<i, j>>],
                         traceback |-> t.traceback[<<i, j>>]]
        skipping == plus(t.dp[<<i, j - 1>>], 0)
    IN IF j > 0 /\ skipping < matched.dp
       THEN [dp |-> skipping, traceback |-> t.traceback[<<i, j - 1>>]]
       ELSE matched

\* one cell of the table: match, then skip the cue, then leave the
\* chapter unmatched, each taken when strictly cheaper
dp_cell(t, i, j, match_cost) ==
    LET matching == plus(t.dp[<<i - 1, j - 1>>], match_cost)
        matched == IF matching < t.dp[<<i, j>>]
                   THEN [dp |-> matching, traceback |-> <<i - 1, j - 1, j - 1>>]
                   ELSE [dp |-> t.dp[<<i, j>>],
                         traceback |-> t.traceback[<<i, j>>]]
        skipping == plus(t.dp[<<i, j - 1>>], 0)
        skipped == IF j > 0 /\ skipping < matched.dp
                   THEN [dp |-> skipping,
                         traceback |-> t.traceback[<<i, j - 1>>]]
                   ELSE matched
        unmatching == plus(t.dp[<<i - 1, j>>], no_match_cost)
    IN IF j > 0 /\ unmatching < skipped.dp
       THEN [dp |-> unmatching, traceback |-> <<i - 1, j, -1>>]
       ELSE skipped

RECURSIVE dp_fill(_, _, _, _, _, _)
dp_fill(t, i, j, expected_times, cue_times, cue_silences) ==
    IF i > Len(expected_times) THEN t
    ELSE IF j > Len(cue_times)
         THEN dp_fill(t, i + 1, i + 1, expected_times, cue_times, cue_silences)
    ELSE LET cell == dp_cell(t, i, j,
                         calculate_match_cost(expected_times[i], cue_times[j],
                                               cue_silences[j]))
         IN dp_fill([dp |-> [t.dp EXCEPT ![<<i, j>>] = cell.dp],
                     traceback |-> [t.traceback EXCEPT
                                       ![<<i, j>>] = cell.traceback]],
                    i, j + 1, expected_times, cue_times, cue_silences)

RECURSIVE walk_back(_, _, _, _)
walk_back(t, i, j, matches) ==
    IF i = 0 THEN matches
    ELSE IF t.traceback[<<i, j>>] = NoTrace THEN matches
    ELSE LET prev == t.traceback[<<i, j>>]
         IN walk_back(t, prev[1], prev[2],
                      IF prev[1] = i - 1 /\ prev[3] >= 0
                      THEN [matches EXCEPT ![i] = prev[3]]
                      ELSE matches)

\* matches[i] is the 0-based index of the cue of chapter i, -1 for none
match_chapters_to_cues(expected_times, cue_times, cue_silences) ==
    LET n_chapters == Len(expected_times)
        n_cues == Len(cue_times)
        t == dp_fill(dp_start(n_chapters, n_cues), 1, 1,
                     expected_times, cue_times, cue_silences)
    IN walk_back(t, n_chapters, n_cues, [i \in 1..n_chapters |-> -1])

Fixed(hundredths) == [kind |-> "fixed", value |-> hundredths]

\* _calculate_confidence(time_diff, silence) is not evaluated (it needs
\* exp); a matched result keeps its two arguments instead
Computed(time_diff, silence) ==
    [kind |-> "computed", time_diff |-> time_diff, silence |-> silence]

NonNegative(t) == IF t.num < 0 THEN [num |-> 0, den |-> 1] ELSE t

build_results(source_chapters, detected_cues, matches, expected_times) ==
    [i \in 1..Len(source_chapters) |->
        IF matches[i] >= 0
        THEN LET cue == detected_cues[matches[i] + 1]
             IN [title |-> source_chapters[i].title,
                 timestamp |-> [num |-> cue.time, den |-> 1],
                 confidence |->
                     Computed([num |-> Abs(expected_times[i].num
                                           - cue.time * expected_times[i].den),
                               den |-> expected_times[i].den],
                              cue.silence_duration),
                 is_guess |-> FALSE,
                 matched_silence |-> cue.silence_duration]
        ELSE [title |-> source_chapters[i].title,
              timestamp |-> NonNegative(expected_times[i]),
              confidence |-> Fixed(30),
              is_guess |-> TRUE,
              matched_silence |-> 0]]

fallback_alignment(source_chapters, total_duration_source, total_duration_actual) ==
    LET transform == duration_ratio(total_duration_source,
                                    total_duration_actual)
    IN [results |->
            [i \in 1..Len(source_chapters) |->
                [title |-> source_chapters[i].title,
                 timestamp |-> NonNegative(
                     expected_time(source_chapters[i].time, transform)),
                 confidence |-> Fixed(20),
                 is_guess |-> TRUE,
                 matched_silence |-> 0]],
        transform |-> transform]

align(source_chapters, detected_cues, total_duration_source, total_duration_actual) ==
    IF source_chapters = <<>>
    THEN [results |-> <<>>,
          transform |-> [scale |-> 1, offset |-> 0, den |-> 1]]
    ELSE IF detected_cues = <<>>
    THEN fallback_alignment(source_chapters, total_duration_source,
                             total_duration_actual)
    ELSE LET src_times == [i \in 1..Len(source_chapters) |->
                              source_chapters[i].time]
             cue_times == [j \in 1..Len(detected_cues) |->
                              detected_cues[j].time]
             cue_silences == [j \in 1..Len(detected_cues) |->
                                 detected_cues[j].silence_duration]
             transform == estimate_transform(src_times, cue_times,
                              cue_silences, total_duration_source,
                              total_duration_actual)
             expected_times == [i \in 1..Len(src_times) |->
                                   expected_time(src_times[i], transform)]
             matches == match_chapters_to_cues(expected_times, cue_times,
                                                cue_silences)
         IN [results |-> build_results(source_chapters, detected_cues,
                                        matches, expected_times),
             transform |-> transform]

\* source chapters at ascending times, titled by position
SourceLists ==
    {[i \in 1..Len(ts) |-> [time |-> ts[i], title |-> TitleOf(i)]] :
        ts \in {Ascending(S) : S \in {T \in SUBSET SourceTimePool :
                                         Cardinality(T) <= MaxSource}}}

\* detected cues at ascending times, each with a silence duration
CueLists ==
    UNION {{[j \in 1..Len(ts) |->
                [time |-> ts[j], silence_duration |-> sil[j]]] :
              sil \in [1..Len(ts) -> SilencePool]} :
           ts \in {Ascending(S) : S \in {T \in SUBSET CueTimePool :
                                            Cardinality(T) <= MaxCues}}}

\* the inputs whose chapters the duration ratio maps onto whole times
AlignInputs ==
    {inp \in [op : {"align"}, source_chapters : SourceLists,
             detected_cues : CueLists, durations : DurationPairs] :
        \A i \in 1..Len(inp.source_chapters) :
            inp.durations[1] > 0 =>
                (inp.source_chapters[i].time * inp.durations[2])
                    % inp.durations[1] = 0}

InitAlign ==
    /\ InitPipeline
    /\ InitOpsIdle
    /\ InitConfigIdle
    /\ p_in \in AlignInputs
    /\ p_out = NoCall

CallAlign ==
    /\ p_out = NoCall
    /\ p_out' = [op |-> "align",
                 out |-> align(p_in.source_chapters, p_in.detected_cues,
                               p_in.durations[1], p_in.durations[2])]
    /\ UNCHANGED p_in

NextAlign ==
    /\ CallAlign
    /\ UNCHANGED <<vars_pipeline, requests, vars_ops, vars_config>>

SpecAlign == InitAlign /\ [][NextAlign]_vars

Aligned == p_out.op = "align"

\* the time the transform expects for source chapter i
ExpectedOf(i) ==
    expected_time(p_in.source_chapters[i].time, p_out.out.transform)

\* C38: every aligner input gives exactly one result per source chapter,
\* in source order; a result that is not a guess carries the time of a
\* detected cue at most max_drift (120 s) from the expected time, and a
\* guess has confidence 0.3, or 0.2 when there are no detected cues
C38_OneResultPerChapter ==
    Aligned =>
        /\ Len(p_out.out.results) = Len(p_in.source_chapters)
        /\ \A i \in 1..Len(p_in.source_chapters) :
              LET r == p_out.out.results[i]
              IN /\ r.title = p_in.source_chapters[i].title
                 /\ ~r.is_guess =>
                       /\ r.timestamp.den = 1
                       /\ \E j \in 1..Len(p_in.detected_cues) :
                             p_in.detected_cues[j].time = r.timestamp.num
                       /\ ~drifted(ExpectedOf(i), r.timestamp.num)
                 /\ r.is_guess =>
                       r.confidence = (IF p_in.detected_cues = <<>>
                                       THEN Fixed(20) ELSE Fixed(30))

\* a chapter matched off its expected time next to a chapter left as a
\* guess although a cue lies beyond max_drift of it
C38_Witness ==
    /\ Aligned
    /\ \E i, k \in 1..Len(p_in.source_chapters) :
          /\ ~p_out.out.results[i].is_guess
          /\ ExpectedOf(i).num
                 # p_out.out.results[i].timestamp.num * ExpectedOf(i).den
          /\ p_out.out.results[k].is_guess
          /\ Len(p_in.detected_cues) >= Len(p_in.source_chapters)
          /\ \A j \in 1..Len(p_in.detected_cues) :
                drifted(ExpectedOf(k), p_in.detected_cues[j].time)

\* source chapters and detected cues at the same times, equal durations
IdentityCase ==
    /\ p_in.op = "align"
    /\ p_in.durations[1] = p_in.durations[2]
    /\ Len(p_in.source_chapters) = Len(p_in.detected_cues)
    /\ \A i \in 1..Len(p_in.source_chapters) :
          p_in.source_chapters[i].time = p_in.detected_cues[i].time

\* C39: when the source chapters coincide with the detected cues (same
\* times, equal durations), every chapter is matched to its own cue (the
\* timestamp is the cue time and is_guess is false), whatever the
\* silence durations
C39_IdentityMatchesEveryChapter ==
    (Aligned /\ IdentityCase) =>
        \A i \in 1..Len(p_in.source_chapters) :
            /\ ~p_out.out.results[i].is_guess
            /\ p_out.out.results[i].timestamp
                   = [num |-> p_in.detected_cues[i].time, den |-> 1]
====
